---- MODULE Spec2Model ----
(***************************************************************************)
(* A model of the vetree-verilog indexer: the sanitizer, the conditional   *)
(* preprocessor, the structural extractor, the design index, the hierarchy *)
(* builder and the direct-connection analyzer.                             *)
(*                                                                         *)
(* Texts are sequences of one-character strings.  A JavaScript Map is a    *)
(* sequence of [key, val] entries in insertion order, a Set a sequence     *)
(* without repetitions in insertion order.  An object reference to a       *)
(* HierarchyNode is an index into the node store `heap`.                   *)
(***************************************************************************)
EXTENDS Integers, Sequences, FiniteSets, TLC

VARIABLES
    hierIn,     \* the arguments fullRefresh hands to VerilogHierarchyProvider.update
    hier,       \* the fields of the VerilogHierarchyProvider and its node store
    connIn,     \* the arguments of a findDirectConnections call
    connOut,    \* whether the call has returned, and the list it returned
    san,        \* the locals of a stripVerilogComments call and its return value
    pre,        \* the arguments, locals and return value of a preprocessVerilog call
    ex,         \* the arguments and return value of a parseModulesAndInstancesInFile call
    pf,         \* the arguments, locals and return value of a parseFiles call
    rf,         \* the refresh state of the extension: flags, timer, scans, published design
    sel,        \* the selected endpoints and the content of the Direct Connections view
    memo        \* the line-start memo of types.ts and the last offsetToPosition call

hierVars == <<hierIn, hier>>

connVars == <<connIn, connOut>>

sanVars == <<san>>

preVars == <<pre>>

exVars == <<ex>>

pfVars == <<pf>>

rfVars == <<rf>>

selVars == <<sel>>

memoVars == <<memo>>

vars == <<hierVars, connVars, sanVars, preVars, exVars, pfVars, rfVars, selVars, memoVars>>

\* The components a specification does not exercise stay idle.
IdleHier == hierIn = <<>> /\ hier = <<>>

IdleConn == connIn = <<>> /\ connOut = <<>>

IdleSan == san = <<>>

IdlePre == pre = <<>>

IdleEx == ex = <<>>

IdleFiles == pf = <<>>

IdleRefresh == rf = <<>>

IdleSelect == sel = <<>>

IdleMemo == memo = <<>>

OnlyHier == IdleConn /\ IdleSan /\ IdlePre /\ IdleEx /\ IdleFiles /\ IdleRefresh /\ IdleSelect /\ IdleMemo

OnlyConn == IdleHier /\ IdleSan /\ IdlePre /\ IdleEx /\ IdleFiles /\ IdleRefresh /\ IdleSelect /\ IdleMemo

OnlySan == IdleHier /\ IdleConn /\ IdlePre /\ IdleEx /\ IdleFiles /\ IdleRefresh /\ IdleSelect /\ IdleMemo

OnlyPre == IdleHier /\ IdleConn /\ IdleSan /\ IdleEx /\ IdleFiles /\ IdleRefresh /\ IdleSelect /\ IdleMemo

OnlyEx == IdleHier /\ IdleConn /\ IdleSan /\ IdlePre /\ IdleFiles /\ IdleRefresh /\ IdleSelect /\ IdleMemo

OnlyFiles == IdleHier /\ IdleConn /\ IdleSan /\ IdlePre /\ IdleEx /\ IdleRefresh /\ IdleSelect /\ IdleMemo

OnlyRefresh == IdleHier /\ IdleConn /\ IdleSan /\ IdlePre /\ IdleEx /\ IdleFiles /\ IdleSelect /\ IdleMemo

OnlySelect == IdleHier /\ IdleConn /\ IdleSan /\ IdlePre /\ IdleEx /\ IdleFiles /\ IdleRefresh /\ IdleMemo

OnlyMemo == IdleHier /\ IdleConn /\ IdleSan /\ IdlePre /\ IdleEx /\ IdleFiles /\ IdleRefresh /\ IdleSelect

othersHier == <<connVars, sanVars, preVars, exVars, pfVars, rfVars, selVars, memoVars>>

othersConn == <<hierVars, sanVars, preVars, exVars, pfVars, rfVars, selVars, memoVars>>

othersSan == <<hierVars, connVars, preVars, exVars, pfVars, rfVars, selVars, memoVars>>

othersPre == <<hierVars, connVars, sanVars, exVars, pfVars, rfVars, selVars, memoVars>>

othersEx == <<hierVars, connVars, sanVars, preVars, pfVars, rfVars, selVars, memoVars>>

othersFiles == <<hierVars, connVars, sanVars, preVars, exVars, rfVars, selVars, memoVars>>

othersRefresh == <<hierVars, connVars, sanVars, preVars, exVars, pfVars, selVars, memoVars>>

othersSelect == <<hierVars, connVars, sanVars, preVars, exVars, pfVars, rfVars, memoVars>>

othersMemo == <<hierVars, connVars, sanVars, preVars, exVars, pfVars, rfVars, selVars>>

(***************************************************************************)
(* General helpers                                                         *)
(***************************************************************************)
Max(a, b) == IF a >= b THEN a ELSE b

Min(a, b) == IF a <= b THEN a ELSE b

Range(s) == {s[i] : i \in 1..Len(s)}

\* JavaScript undefined / null for a string-valued field.
UNDEF == "<undefined>"

\* JavaScript undefined for a Location, and null for an object (a design).
NoLoc == <<>>

Null == <<>>

Some(x) == <<x>>

\* All sequences over S of length at most n.
RECURSIVE SeqsUpTo(_, _)
SeqsUpTo(S, n) ==
    IF n = 0 THEN {<<>>}
    ELSE LET shorter == SeqsUpTo(S, n - 1)
         IN shorter \cup {Append(s, x) : s \in {t \in shorter : Len(t) = n - 1}, x \in S}

\* Array.prototype.includes / Set.prototype.has on an insertion-ordered set.
Has(set, x) == \E i \in 1..Len(set) : set[i] = x

\* Set.prototype.add
SetAdd(set, x) == IF Has(set, x) THEN set ELSE Append(set, x)

\* Map.prototype.get: the value of the entry with this key, <<>> (undefined) if none.
MapHas(map, k) == \E i \in 1..Len(map) : map[i].key = k

MapGet(map, k) ==
    IF MapHas(map, k)
    THEN map[CHOOSE i \in 1..Len(map) : map[i].key = k].val
    ELSE <<>>

\* Map.prototype.set: an existing key keeps its position, a new one goes last.
MapSet(map, k, v) ==
    IF MapHas(map, k)
    THEN [i \in 1..Len(map) |-> IF map[i].key = k THEN [key |-> k, val |-> v] ELSE map[i]]
    ELSE Append(map, [key |-> k, val |-> v])

(***************************************************************************)
(* Design Index: the aggregation at the end of parseFiles                  *)
(***************************************************************************)
\* Mutant of GroupByKey: a module whose key is already in the map is dropped.
RECURSIVE GroupByKey_FirstWins(_, _, _, _)
GroupByKey_FirstWins(modules, i, map, field) ==
    IF i > Len(modules) THEN map
    ELSE LET m == modules[i]
             k == IF field = "name" THEN m.name ELSE m.uri
         IN GroupByKey_FirstWins(modules, i + 1,
                                 IF MapHas(map, k) THEN map ELSE MapSet(map, k, <<m>>), field)

\* for (const m of modules): push m on modulesByName[m.name], creating the list first.
RECURSIVE GroupByKey(_, _, _, _)
GroupByKey(modules, i, map, field) ==
    IF i > Len(modules) THEN map
    ELSE LET m == modules[i]
             k == IF field = "name" THEN m.name ELSE m.uri
         IN GroupByKey(modules, i + 1, MapSet(map, k, Append(MapGet(map, k), m)), field)

BuildIndex(modules) ==
    [modules       |-> modules,
     modulesByName |-> GroupByKey(modules, 1, <<>>, "name"),
     modulesByFile |-> GroupByKey(modules, 1, <<>>, "uri")]

(***************************************************************************)
(* Ordering of names: Array.prototype.sort() without a comparator orders   *)
(* strings by UTF-16 code units.  NameList is the pool of module names the *)
(* model uses, written in ascending code-unit order.                       *)
(***************************************************************************)
NameList == <<"a", "b", "c", "d", "e", "f", "mid", "r", "top", "x">>

Rank(n) == CHOOSE i \in 1..Len(NameList) : NameList[i] = n

LessStr(x, y) == Rank(x) < Rank(y)

\* Insert x into the ascending sequence s.
RECURSIVE InsertSorted(_, _)
InsertSorted(s, x) ==
    IF s = <<>> THEN <<x>>
    ELSE IF LessStr(x, Head(s)) THEN <<x>> \o s
    ELSE <<Head(s)>> \o InsertSorted(Tail(s), x)

RECURSIVE SortStrings(_)
SortStrings(s) == IF s = <<>> THEN <<>> ELSE InsertSorted(SortStrings(Tail(s)), Head(s))

(***************************************************************************)
(* Hierarchy Builder: VerilogHierarchyProvider                             *)
(***************************************************************************)
ZeroStats == [nodeCount |-> 0, maxDepthSeen |-> 0, depthLimitHits |-> 0, cycleHits |-> 0]

\* new HierarchyNode(moduleName, label, collapsibleState, options): the fields the
\* constructor sets.  `via` is a history field: the return statement of
\* createNodeForModule (or the external branch) that made the node.
HierarchyNode(moduleName, label, state, children, defLoc, instLoc, parent, instanceName, parentModuleName, contextValue, via) ==
    [moduleName         |-> moduleName,
     label              |-> label,
     collapsibleState   |-> state,
     children           |-> children,
     definitionLocation |-> defLoc,
     instanceLocation   |-> instLoc,
     parent             |-> parent,
     instanceName       |-> instanceName,
     parentModuleName   |-> parentModuleName,
     contextValue       |-> IF contextValue = UNDEF THEN "verilogModuleHierarchy"
                            ELSE contextValue,
     via                |-> via]

\* All instances of every module in the list, in order: mods.flatMap(m => m.instances).
RECURSIVE FlatInstances(_)
FlatInstances(mods) ==
    IF mods = <<>> THEN <<>> ELSE Head(mods).instances \o FlatInstances(Tail(mods))

\* recomputeRoots: the names instantiated anywhere, then the defined names not among
\* them (a Set, so each once), sorted.
RECURSIVE RootSet(_, _, _, _)
RootSet(modules, i, instantiated, rootSet) ==
    IF i > Len(modules) THEN rootSet
    ELSE RootSet(modules, i + 1, instantiated,
                 IF modules[i].name \in instantiated THEN rootSet
                 ELSE SetAdd(rootSet, modules[i].name))

Instantiated(modules) ==
    {inst.moduleName : inst \in Range(FlatInstances(modules))}

\* Mutant of recomputeRoots: the root names are left in discovery order.
recomputeRoots_Unsorted(design) ==
    IF design = Null THEN <<>>
    ELSE RootSet(design[1].modules, 1, Instantiated(design[1].modules), <<>>)

recomputeRoots(design) ==
    IF design = Null THEN <<>>
    ELSE SortStrings(RootSet(design[1].modules, 1, Instantiated(design[1].modules), <<>>))

\* The location new vscode.Location(m.uri, m.definitionRange).
DefLocation(m) == <<m.uri, m.definitionRange>>

\* createNodeForModule with its two loops.  `self` is the provider (design, maxDepth,
\* resolveStrategy, stats, heap); the result is [self, id], id the new node's reference.
RECURSIVE createNodeForModule(_, _, _, _, _, _, _)
RECURSIVE ExpandInstances(_, _, _, _, _, _, _)
RECURSIVE ExpandTargets(_, _, _, _, _, _, _, _)

Alloc(self, node) ==
    [self |-> [self EXCEPT !.heap = Append(@, node)], id |-> Len(self.heap) + 1]

\* Mutant of ResolveTargets: the strategy is ignored and every definition expanded.
ResolveTargets_IgnoreStrategy(resolveStrategy, targets) == targets

\* this.resolveStrategy === 'first' ? targets.slice(0, 1) : targets
ResolveTargets(resolveStrategy, targets) ==
    IF resolveStrategy = "first" THEN SubSeq(targets, 1, Min(1, Len(targets))) ELSE targets

\* for (const t of resolvedTargets) { ... children.push(childNode) }
ExpandTargets(self, children, targets, k, inst, name, newVisited, safeDepth) ==
    IF k > Len(targets) THEN [self |-> self, children |-> children]
    ELSE LET t == targets[k]
             r == createNodeForModule(self, t.name, newVisited, inst.location,
                                      DefLocation(t), 0, safeDepth + 1)
             relabelled ==
                 [r.self EXCEPT
                     !.heap[r.id].label = <<inst.instanceName, ": ", t.name>>,
                     !.heap[r.id].instanceName = inst.instanceName,
                     !.heap[r.id].parentModuleName = name,
                     !.heap[r.id].contextValue = "verilogModuleInstance"]
         IN ExpandTargets(relabelled, Append(children, r.id), targets, k + 1,
                          inst, name, newVisited, safeDepth)

\* for (const inst of instances) { external node, or the resolved targets }
ExpandInstances(self, children, instances, i, name, newVisited, safeDepth) ==
    IF i > Len(instances) THEN [self |-> self, children |-> children]
    ELSE LET inst == instances[i]
             targets == MapGet(self.design[1].modulesByName, inst.moduleName)
         IN IF targets = <<>>
            THEN LET externalNode ==
                         HierarchyNode(inst.moduleName,
                                       <<inst.instanceName, ": ", inst.moduleName, " (external)">>,
                                       "None", <<>>, NoLoc, inst.location, 0,
                                       inst.instanceName, name, "verilogModuleInstance",
                                       "external")
                     a == Alloc(self, externalNode)
                     counted == [a.self EXCEPT !.stats.nodeCount = @ + 1]
                 IN ExpandInstances(counted, Append(children, a.id), instances, i + 1,
                                    name, newVisited, safeDepth)
            ELSE LET resolvedTargets == ResolveTargets(self.resolveStrategy, targets)
                     r == ExpandTargets(self, children, resolvedTargets, 1, inst, name,
                                        newVisited, safeDepth)
                 IN ExpandInstances(r.self, r.children, instances, i + 1,
                                    name, newVisited, safeDepth)

\* The statistics after the first statement: maxDepthSeen = max(maxDepthSeen, safeDepth).
SeenDepth(self, safeDepth) ==
    [self EXCEPT !.stats.maxDepthSeen = Max(@, safeDepth)]

\* Mutant of AtDepthLimit: the limit is tested one level too late.
AtDepthLimit_OffByOne(self, safeDepth) == safeDepth > self.maxDepth

\* if (safeDepth >= this.maxDepth)
AtDepthLimit(self, safeDepth) == safeDepth >= self.maxDepth

\* Mutant of OnCycle: only the direct parent is compared, not the whole path.
OnCycle_ParentOnly(visited, name) == Len(visited) > 0 /\ visited[Len(visited)] = name

\* if (visited.has(name))
OnCycle(visited, name) == Has(visited, name)

\* Mutant of SetParents: the children keep the parent they were made with.
SetParents_Skipped(heap, children, id) == heap

\* for (const child of children) child.parent = node
SetParents(heap, children, id) ==
    [j \in 1..Len(heap) |->
        IF Has(children, j) THEN [heap[j] EXCEPT !.parent = id] ELSE heap[j]]

createNodeForModule(self0, name, visited, instanceLocation, definitionLocation, parent, safeDepth) ==
    LET self == SeenDepth(self0, safeDepth)
    IN IF self.design = Null
       THEN Alloc(self, HierarchyNode(name, <<name>>, "None", <<>>, NoLoc, NoLoc, 0,
                                      UNDEF, UNDEF, UNDEF, "nodesign"))
       ELSE IF AtDepthLimit(self, safeDepth)
       THEN Alloc([self EXCEPT !.stats.depthLimitHits = @ + 1,
                               !.stats.nodeCount = @ + 1],
                  HierarchyNode(name, <<name, " (depth limit)">>, "None", <<>>,
                                definitionLocation, instanceLocation, parent,
                                UNDEF, UNDEF, UNDEF, "depth-limit"))
       ELSE IF OnCycle(visited, name)
       THEN Alloc([self EXCEPT !.stats.cycleHits = @ + 1,
                               !.stats.nodeCount = @ + 1],
                  HierarchyNode(name, <<name, " (cycle)">>, "None", <<>>,
                                NoLoc, instanceLocation, parent,
                                UNDEF, UNDEF, UNDEF, "cycle"))
       ELSE LET newVisited == SetAdd(visited, name)
                mods == MapGet(self.design[1].modulesByName, name)
                instances == FlatInstances(mods)
                primaryLocation ==
                    IF definitionLocation # NoLoc THEN definitionLocation
                    ELSE IF mods # <<>> THEN DefLocation(mods[1]) ELSE NoLoc
                r == ExpandInstances(self, <<>>, instances, 1, name, newVisited, safeDepth)
                state == IF Len(r.children) > 0 THEN "Collapsed" ELSE "None"
                a == Alloc(r.self,
                           HierarchyNode(name, <<name>>, state, r.children,
                                         primaryLocation, instanceLocation, parent,
                                         UNDEF, UNDEF, UNDEF, "module"))
            IN [self |-> [a.self EXCEPT !.stats.nodeCount = @ + 1,
                                        !.heap = SetParents(@, r.children, a.id)],
                id |-> a.id]

\* rootList.map(name => this.createNodeForModule(name, new Set(), undefined, undefined,
\* undefined, 0))
RECURSIVE BuildRoots(_, _, _, _)
BuildRoots(self, rootList, i, rootNodes) ==
    IF i > Len(rootList) THEN [self EXCEPT !.rootNodes = rootNodes]
    ELSE LET r == createNodeForModule(self, rootList[i], <<>>, NoLoc, NoLoc, 0, 0)
         IN BuildRoots(r.self, rootList, i + 1, Append(rootNodes, r.id))

\* Mutant of RootList: the configured top module is ignored.
RootList_Unfiltered(roots, topModule) == roots

\* this.topModule ? this.roots.filter(r => r === this.topModule) : this.roots
RootList(roots, topModule) ==
    IF topModule # UNDEF /\ topModule # ""
    THEN SelectSeq(roots, LAMBDA r : r = topModule)
    ELSE roots

\* VerilogHierarchyProvider.update.  The nodes of the previous build are no longer
\* referenced by the provider, so the node store starts empty.
update(design, maxDepth, resolveStrategy, topModule) ==
    LET roots == recomputeRoots(design)
        self == [design          |-> design,
                 roots           |-> roots,
                 rootNodes       |-> <<>>,
                 maxDepth        |-> maxDepth,
                 resolveStrategy |-> resolveStrategy,
                 topModule       |-> topModule,
                 stats           |-> ZeroStats,
                 heap            |-> <<>>]
    IN BuildRoots(self, RootList(roots, topModule), 1, <<>>)

\* getChildren(undefined): the roots shown, none while there is no design.
ShownRoots(self) == IF self.design = Null THEN <<>> ELSE self.rootNodes

(***************************************************************************)
(* Connection Analyzer: findDirectConnections                              *)
(***************************************************************************)
\* The characters the regular-expression class \s matches, among those the model uses.
WhiteSpace == {" ", "\t", "\n", "\r"}

IsSpace(c) == c \in WhiteSpace

\* Mutant of normalize: the expression is compared as written.
normalize_Raw(expr) == expr

\* normalize = (expr) => expr.replace(/\s+/g, '')
normalize(expr) == SelectSeq(expr, LAMBDA c : ~ IsSpace(c))

\* Array.prototype.find on the instance name: the first such instance, <<>> if none.
FindInstance(instances, instanceName) ==
    IF \E i \in 1..Len(instances) : instances[i].instanceName = instanceName
    THEN Some(instances[CHOOSE i \in 1..Len(instances) :
                  /\ instances[i].instanceName = instanceName
                  /\ \A j \in 1..(i - 1) : instances[j].instanceName # instanceName])
    ELSE <<>>

\* Mutant of FindBoth: each instance is taken from the first module that has it.
FindBoth_AnyModule(modules, k, instanceA, instanceB) ==
    LET withA == SelectSeq(modules, LAMBDA m : FindInstance(m.instances, instanceA) # <<>>)
        withB == SelectSeq(modules, LAMBDA m : FindInstance(m.instances, instanceB) # <<>>)
    IN IF withA = <<>> \/ withB = <<>> THEN <<>>
       ELSE <<FindInstance(withA[1].instances, instanceA)[1],
              FindInstance(withB[1].instances, instanceB)[1]>>

\* for (const mod of modules) { a = find A; b = find B; if (a && b) { ...; break } }
\* The pair <<instA, instB>>, or <<>> when no module holds both.
RECURSIVE FindBoth(_, _, _, _)
FindBoth(modules, k, instanceA, instanceB) ==
    IF k > Len(modules) THEN <<>>
    ELSE LET a == FindInstance(modules[k].instances, instanceA)
             b == FindInstance(modules[k].instances, instanceB)
         IN IF a # <<>> /\ b # <<>> THEN <<a[1], b[1]>>
            ELSE FindBoth(modules, k + 1, instanceA, instanceB)

\* mapBindings: normalized expression -> the bindings with it, empty keys skipped.
RECURSIVE mapBindings(_, _, _)
mapBindings(bindings, i, map) ==
    IF i > Len(bindings) THEN map
    ELSE LET key == normalize(bindings[i].expr)
         IN IF key = <<>> THEN mapBindings(bindings, i + 1, map)
            ELSE mapBindings(bindings, i + 1,
                             MapSet(map, key, Append(MapGet(map, key), bindings[i])))

\* The label `${instA.instanceName}.${pa.portName} - ${instB.instanceName}.${pb.portName}`
ConnectionInfo(instA, pa, instB, pb) ==
    [label    |-> <<instA.instanceName, ".", pa.portName, " - ",
                    instB.instanceName, ".", pb.portName>>,
     location |-> pa.location]

\* for (const pa of portsA) for (const pb of portsB) result.push(...)
PairPorts(instA, portsA, instB, portsB) ==
    [n \in 1..(Len(portsA) * Len(portsB)) |->
        ConnectionInfo(instA, portsA[((n - 1) \div Len(portsB)) + 1],
                       instB, portsB[((n - 1) % Len(portsB)) + 1])]

\* for (const [expr, portsA] of mapA.entries()) { portsB = mapB.get(expr); ... }
RECURSIVE JoinMaps(_, _, _, _, _, _)
JoinMaps(instA, mapA, instB, mapB, e, result) ==
    IF e > Len(mapA) THEN result
    ELSE LET portsB == MapGet(mapB, mapA[e].key)
         IN JoinMaps(instA, mapA, instB, mapB, e + 1,
                     IF portsB = <<>> THEN result
                     ELSE result \o PairPorts(instA, mapA[e].val, instB, portsB))

findDirectConnections(design, parentModule, instanceA, instanceB) ==
    LET modules == MapGet(design.modulesByName, parentModule)
        both == FindBoth(modules, 1, instanceA, instanceB)
    IN IF both = <<>> THEN <<>>
       ELSE JoinMaps(both[1], mapBindings(both[1].bindings, 1, <<>>),
                     both[2], mapBindings(both[2].bindings, 1, <<>>), 1, <<>>)

(***************************************************************************)
(* Design indexes handed to the hierarchy builder and the connection       *)
(* analyzer.  A module is described by its name and the list of its        *)
(* instances (type name and port bindings); MkModules gives every module   *)
(* and instance the distinct location the parser would.                    *)
(***************************************************************************)
MaxSize == 4        \* modules plus instances of an enumerated design

MaxChain == 4       \* modules of the longest instantiation chain

MaxDepthCfg == 2    \* largest small value of maxHierarchyDepth tried

DefaultMaxDepth == 100

InstNames == <<"u1", "u2", "u3", "u4", "u5", "u6">>

\* An instance description: the instantiated type and the named port bindings.
Inst(type) == [type |-> type, bindings |-> <<>>]

MkInstance(uri, i, j, d) ==
    [moduleName   |-> d.type,
     instanceName |-> IF "name" \in DOMAIN d THEN d.name ELSE InstNames[j],
     location     |-> <<uri, 10 * i + j>>,
     bindings     |-> [k \in 1..Len(d.bindings) |->
                          [portName |-> d.bindings[k][1],
                           expr     |-> d.bindings[k][2],
                           location |-> <<uri, 100 * i + 10 * j + k>>]]]

\* Two modules to a file, in discovery order.
MkModules(shapes) ==
    [i \in 1..Len(shapes) |->
        LET uri == (i + 1) \div 2
        IN [name            |-> shapes[i].name,
            uri             |-> uri,
            definitionRange |-> 10 * i,
            instances       |-> [j \in 1..Len(shapes[i].insts) |->
                                    MkInstance(uri, i, j, shapes[i].insts[j])],
            ports           |-> <<>>]]

MkDesign(shapes) == BuildIndex(MkModules(shapes))

Shape(name, types) == [name |-> name, insts |-> [j \in 1..Len(types) |-> Inst(types[j])]]

\* Every list of modules named a or b, with instances of a, b or the undefined x,
\* of at most s modules and instances together.
GenNames == {"a", "b"}

GenTypes == {"a", "b", "x"}

RECURSIVE ShapeLists(_)
ShapeLists(s) ==
    IF s <= 0 THEN {<<>>}
    ELSE {<<>>} \cup
         UNION { { <<Shape(n, ts)>> \o rest : rest \in ShapeLists(s - 1 - Len(ts)) } :
                 n \in GenNames, ts \in SeqsUpTo(GenTypes, s - 1) }

\* a -> b -> c -> ... : module k instantiates module k+1, the last one nothing.
Chain(n) ==
    [k \in 1..n |-> Shape(NameList[k], IF k < n THEN <<NameList[k + 1]>> ELSE <<>>)]

ScenarioShapes ==
    { <<Shape("top", <<"mid">>), Shape("mid", <<"top">>)>>,
      <<Shape("r", <<"top">>), Shape("top", <<"mid">>), Shape("mid", <<"top">>)>>,
      <<Shape("r", <<"top", "x">>), Shape("top", <<"mid">>), Shape("mid", <<"top">>)>>,
      <<Shape("top", <<"a", "b">>), Shape("a", <<"c">>), Shape("b", <<"c">>),
        Shape("c", <<>>)>>,
      <<Shape("top", <<"a", "b">>), Shape("a", <<"c">>), Shape("b", <<"c">>),
        Shape("c", <<"c">>)>>,
      <<Shape("top", <<"a", "x">>), Shape("a", <<"b">>), Shape("a", <<>>),
        Shape("b", <<>>), Shape("b", <<"x">>)>> }

HierShapes ==
    (ShapeLists(MaxSize) \ {<<>>}) \cup {Chain(n) : n \in 1..MaxChain} \cup ScenarioShapes

HierDesigns == {Null} \cup {Some(MkDesign(s)) : s \in HierShapes}

DepthValues == (0..MaxDepthCfg) \cup {DefaultMaxDepth}

TopValues == {UNDEF, "a", "top"}

(***************************************************************************)
(* The hierarchy specification: a scan result and a configuration, built   *)
(* and rebuilt by update.                                                  *)
(***************************************************************************)
NewProvider ==
    [design          |-> Null,
     roots           |-> <<>>,
     rootNodes       |-> <<>>,
     maxDepth        |-> DefaultMaxDepth,
     resolveStrategy |-> "all",
     topModule       |-> UNDEF,
     stats           |-> ZeroStats,
     heap            |-> <<>>]

InitHier ==
    /\ hierIn \in [design : HierDesigns, maxDepth : DepthValues,
                   resolveStrategy : {"all", "first"}, topModule : TopValues]
    /\ hier = NewProvider
    /\ OnlyHier

HierUpdate ==
    /\ hier' = update(hierIn.design, hierIn.maxDepth, hierIn.resolveStrategy,
                      hierIn.topModule)
    /\ UNCHANGED <<hierIn, othersHier>>

NextHier == HierUpdate

SpecHier == InitHier /\ [][NextHier]_vars

(***************************************************************************)
(* The connection specification: a design, a parent module name and two    *)
(* instance names, handed to findDirectConnections.                        *)
(***************************************************************************)
MaxBind == 2        \* port bindings of an instance

MaxDefs == 2        \* module definitions in a design of the lookup family

SysClk == <<"s", "y", "s", "c", "l", "k">>

\* Port bindings <<port name, expression text>>: a shared clock, the same net written
\* with and without white space, and an unconnected port.
BindingPool ==
    { <<"clk", SysClk>>,
      <<"d", SysClk>>,
      <<"q", <<"n", " ", "[", "0", "]">>>>,
      <<"q", <<>>>>,
      <<"clk", <<"n", "\t", "[", " ", "0", "]">>>> }

NamedInst(name, type, bindings) == [type |-> type, name |-> name, bindings |-> bindings]

\* One module p holding ua and ub, with every choice of their bindings.
PairingShapes ==
    { << [name |-> "p",
          insts |-> <<NamedInst("ua", "a", ba), NamedInst("ub", "b", bb)>>] >> :
      ba \in SeqsUpTo(BindingPool, MaxBind), bb \in SeqsUpTo(BindingPool, MaxBind) }

\* Up to MaxDefs modules named p or q, each holding up to two instances named ua or
\* ub, all bound to the shared clock.
LookupModules ==
    { [name |-> n,
       insts |-> [j \in 1..Len(is) |->
                     NamedInst(is[j], "a", << <<"clk", SysClk>>, <<"d", SysClk>> >>)]] :
      n \in {"p", "q"}, is \in SeqsUpTo({"ua", "ub"}, 2) }

LookupShapes == SeqsUpTo(LookupModules, MaxDefs) \ {<<>>}

\* The calls: the pairing designs are asked about their module p, the lookup designs
\* about either parent name.
ConnCalls ==
    [design : {MkDesign(s) : s \in PairingShapes}, parentModule : {"p"},
     instanceA : {"ua", "ub"}, instanceB : {"ua", "ub"}]
    \cup
    [design : {MkDesign(s) : s \in LookupShapes}, parentModule : {"p", "q"},
     instanceA : {"ua", "ub"}, instanceB : {"ua", "ub"}]

InitConn ==
    /\ connIn \in ConnCalls
    /\ connOut = [called |-> FALSE, result |-> <<>>]
    /\ OnlyConn

ConnQuery ==
    /\ ~ connOut.called
    /\ connOut' = [called |-> TRUE,
                   result |-> findDirectConnections(connIn.design, connIn.parentModule,
                                                    connIn.instanceA, connIn.instanceB)]
    /\ UNCHANGED <<connIn, othersConn>>

NextConn == ConnQuery

SpecConn == InitConn /\ [][NextConn]_vars

(***************************************************************************)
(* The sanitizer: stripVerilogComments, one loop iteration per step.       *)
(* `i` is the loop index of the code (0-based); At reads out[i].           *)
(***************************************************************************)
MaxLen == 4         \* characters of a sanitizer input

SanAlphabet == {"/", "*", "\n", "\"", "(", ")", "\\", "a"}

\* out[i], and '' past the end as the code's `next`
At(out, i) == IF i + 1 <= Len(out) THEN out[i + 1] ELSE ""

\* out[i] = ' '
Blank(out, i) == [out EXCEPT ![i + 1] = " "]

\* out[i] = ' '; out[i + 1] = ' '
Blank2(out, i) == Blank(Blank(out, i), i + 1)

BlankUnlessNewline_Always(out, i, ch) == Blank(out, i)

\* else if (ch !== '\n') out[i] = ' '
BlankUnlessNewline(out, i, ch) == IF ch # "\n" THEN Blank(out, i) ELSE out

\* const out = source.split(''); the four flags false; i = 0
SanStart(source) ==
    [source        |-> source,
     out           |-> source,
     i             |-> 0,
     inLineComment |-> FALSE,
     inBlockComment |-> FALSE,
     inAttribute   |-> FALSE,
     inString      |-> FALSE,
     returned      |-> FALSE,
     result        |-> <<>>]

\* One iteration of the for loop, the i++ of the loop header included.
SanIteration(st) ==
    LET i    == st.i
        out  == st.out
        ch   == At(out, i)
        next == IF i + 1 < Len(out) THEN At(out, i + 1) ELSE ""
    IN IF st.inLineComment
       THEN IF ch = "\n"
            THEN [st EXCEPT !.inLineComment = FALSE, !.i = i + 1]
            ELSE [st EXCEPT !.out = Blank(out, i), !.i = i + 1]
       ELSE IF st.inBlockComment
       THEN IF ch = "*" /\ next = "/"
            THEN [st EXCEPT !.out = Blank2(out, i), !.inBlockComment = FALSE, !.i = i + 2]
            ELSE [st EXCEPT !.out = BlankUnlessNewline(out, i, ch), !.i = i + 1]
       ELSE IF st.inAttribute
       THEN IF ch = "*" /\ next = ")"
            THEN [st EXCEPT !.out = Blank2(out, i), !.inAttribute = FALSE, !.i = i + 2]
            ELSE [st EXCEPT !.out = BlankUnlessNewline(out, i, ch), !.i = i + 1]
       ELSE IF st.inString
       THEN IF ch = "\\\\" /\ next # ""
            THEN [st EXCEPT !.i = i + 2]
            ELSE IF ch = "\""
            THEN [st EXCEPT !.inString = FALSE, !.i = i + 1]
            ELSE [st EXCEPT !.i = i + 1]
       ELSE IF ch = "\""
       THEN [st EXCEPT !.inString = TRUE, !.i = i + 1]
       ELSE IF ch = "/" /\ next = "/"
       THEN [st EXCEPT !.out = Blank2(out, i), !.inLineComment = TRUE, !.i = i + 2]
       ELSE IF ch = "/" /\ next = "*"
       THEN [st EXCEPT !.out = Blank2(out, i), !.inBlockComment = TRUE, !.i = i + 2]
       ELSE IF ch = "(" /\ next = "*"
       THEN [st EXCEPT !.out = Blank2(out, i), !.inAttribute = TRUE, !.i = i + 2]
       ELSE [st EXCEPT !.i = i + 1]

\* The whole call: iterate while i < out.length, then out.join('').
RECURSIVE SanRun(_)
SanRun(st) == IF st.i < Len(st.out) THEN SanRun(SanIteration(st)) ELSE st.out

stripVerilogComments(source) == SanRun(SanStart(source))

\* Texts that open a string, escape a quote in it and then hold the opener of a line
\* comment, a block comment or an attribute before the closing quote.
EscapeTexts ==
    {<<"\"", "\\", "\"">> \o opener \o tail :
        opener \in {<<"/", "/">>, <<"/", "*">>, <<"(", "*">>},
        tail \in {<<>>, <<"\"">>, <<"\"", "a">>}}

InitSan ==
    /\ san \in {SanStart(t) : t \in SeqsUpTo(SanAlphabet, MaxLen) \cup EscapeTexts}
    /\ OnlySan

\* for (...; i < out.length; i++) { ... }
SanLoop ==
    /\ ~ san.returned
    /\ san.i < Len(san.out)
    /\ san' = SanIteration(san)
    /\ UNCHANGED othersSan

\* return out.join('')
SanReturn ==
    /\ ~ san.returned
    /\ san.i >= Len(san.out)
    /\ san' = [san EXCEPT !.returned = TRUE, !.result = san.out]
    /\ UNCHANGED othersSan

NextSan == SanLoop \/ SanReturn

SpecSan == InitSan /\ [][NextSan]_vars

(***************************************************************************)
(* The preprocessor: preprocessVerilog.  Offsets are the code's (0-based). *)
(***************************************************************************)
Lower == {"a", "b", "c", "d", "e", "f", "g", "h", "i", "j", "k", "l", "m",
          "n", "o", "p", "q", "r", "s", "t", "u", "v", "w", "x", "y", "z"}

Upper == {"A", "B", "C", "D", "E", "F", "G", "H", "I", "J", "K", "L", "M",
          "N", "O", "P", "Q", "R", "S", "T", "U", "V", "W", "X", "Y", "Z"}

Digit == {"0", "1", "2", "3", "4", "5", "6", "7", "8", "9"}

\* [a-zA-Z_]
IsIdentStart(c) == c \in Lower \cup Upper \cup {"_"}

WordChars == Lower \cup Upper \cup Digit \cup {"_"}

\* \w
IsWord(c) == c \in WordChars

\* the characters `.` does not match
LineTerminators == {"\n", "\r"}

\* text.slice(a, b) for 0 <= a, b
Slice(text, a, b) == SubSeq(text, a + 1, Min(b, Len(text)))

\* text.indexOf(c, from), -1 when there is none
IndexOf(text, c, from) ==
    LET hits == {k \in from..(Len(text) - 1) : text[k + 1] = c}
    IN IF hits = {} THEN -1 ELSE CHOOSE k \in hits : \A h \in hits : k <= h

\* the length of the longest prefix of text[from..] made of the given characters
RunLength(text, from, chars) ==
    LET stops == {k \in from..(Len(text) - 1) : text[k + 1] \notin chars}
    IN IF stops = {} THEN Len(text) - from
       ELSE (CHOOSE k \in stops : \A h \in stops : k <= h) - from

\* String.prototype.trim
trim(text) ==
    LET keep == {k \in 1..Len(text) : ~ IsSpace(text[k])}
    IN IF keep = {} THEN <<>>
       ELSE SubSeq(text, CHOOSE k \in keep : \A h \in keep : k <= h,
                         CHOOSE k \in keep : \A h \in keep : k >= h)

\* The grave accent that opens a directive; string literals here cannot hold it, so
\* the character is written as a token of its own.
BackTick == "<grave>"

\* /^\s*`(\w+)(.*)$/.exec(lineText): <<>> for null, else the two groups
DirectiveMatch(lineText) ==
    LET ws   == RunLength(lineText, 0, WhiteSpace)
        word == RunLength(lineText, ws + 1, WordChars)
    IN IF /\ ws < Len(lineText)
          /\ lineText[ws + 1] = BackTick
          /\ word >= 1
          /\ \A k \in (ws + 1 + word + 1)..Len(lineText) : lineText[k] \notin LineTerminators
       THEN << [directive |-> Slice(lineText, ws + 1, ws + 1 + word),
                rest      |-> Slice(lineText, ws + 1 + word, Len(lineText))] >>
       ELSE <<>>

\* /^([a-zA-Z_]\w*)/.exec(rest): <<>> for null, else the name
NameMatch(rest) ==
    IF rest # <<>> /\ IsIdentStart(rest[1])
    THEN <<Slice(rest, 0, RunLength(rest, 0, WordChars))>>
    ELSE <<>>

Kw_define == <<"d", "e", "f", "i", "n", "e">>

Kw_undef == <<"u", "n", "d", "e", "f">>

Kw_ifdef == <<"i", "f", "d", "e", "f">>

Kw_ifndef == <<"i", "f", "n", "d", "e", "f">>

Kw_elsif == <<"e", "l", "s", "i", "f">>

Kw_else == <<"e", "l", "s", "e">>

Kw_endif == <<"e", "n", "d", "i", "f">>

\* A variant in which nothing is active outside a conditional.
isActive_EmptyInactive(stack) == IF Len(stack) = 0 THEN FALSE ELSE stack[Len(stack)].thisActive

\* const isActive = () => (stack.length === 0 ? true : stack[stack.length - 1].thisActive)
isActive(stack) == IF Len(stack) = 0 THEN TRUE ELSE stack[Len(stack)].thisActive

blankLine_ThroughNewline(out, start, end) ==
    [k \in 1..Len(out) |-> IF start + 1 <= k /\ k <= end + 1 THEN " " ELSE out[k]]

\* blankLine(start, end)
blankLine(out, start, end) ==
    [k \in 1..Len(out) |-> IF start + 1 <= k /\ k <= end THEN " " ELSE out[k]]

\* defines.has(nameMatch[1]) when the name matched, false otherwise
IsDefined(defines, rest) ==
    IF NameMatch(rest) # <<>> THEN NameMatch(rest)[1] \in defines ELSE FALSE

BranchBlocked_IgnoreParent(state) == state.branchTaken

BranchBlocked_IgnoreTaken(state) == ~ state.parentActive

\* if (!state.parentActive || state.branchTaken)
BranchBlocked(state) == ~ state.parentActive \/ state.branchTaken

\* stack[stack.length - 1] = state
SetTop(stack, state) == [stack EXCEPT ![Len(stack)] = state]

\* The if / else-if chain over `directive`: the stack and the defines it leaves.
ApplyDirective(stack, defines, directive, rest) ==
    LET same == [stack |-> stack, defines |-> defines]
    IN IF directive = Kw_define
       THEN IF isActive(stack) /\ NameMatch(rest) # <<>>
            THEN [stack |-> stack, defines |-> defines \cup {NameMatch(rest)[1]}]
            ELSE same
       ELSE IF directive = Kw_undef
       THEN IF isActive(stack) /\ NameMatch(rest) # <<>>
            THEN [stack |-> stack, defines |-> defines \ {NameMatch(rest)[1]}]
            ELSE same
       ELSE IF directive = Kw_ifdef \/ directive = Kw_ifndef
       THEN LET isDefined    == IsDefined(defines, rest)
                condition    == IF directive = Kw_ifdef THEN isDefined ELSE ~ isDefined
                parentActive == isActive(stack)
            IN [stack   |-> Append(stack, [parentActive |-> parentActive,
                                           thisActive   |-> parentActive /\ condition,
                                           branchTaken  |-> condition]),
                defines |-> defines]
       ELSE IF directive = Kw_elsif
       THEN IF Len(stack) = 0 THEN same
            ELSE LET state == stack[Len(stack)]
                 IN IF BranchBlocked(state)
                    THEN [stack   |-> SetTop(stack, [state EXCEPT !.thisActive = FALSE]),
                          defines |-> defines]
                    ELSE [stack   |-> SetTop(stack,
                                         [state EXCEPT !.thisActive = IsDefined(defines, rest),
                                                       !.branchTaken = IsDefined(defines, rest)]),
                          defines |-> defines]
       ELSE IF directive = Kw_else
       THEN IF Len(stack) = 0 THEN same
            ELSE LET state == stack[Len(stack)]
                 IN IF BranchBlocked(state)
                    THEN [stack   |-> SetTop(stack, [state EXCEPT !.thisActive = FALSE]),
                          defines |-> defines]
                    ELSE [stack   |-> SetTop(stack, [state EXCEPT !.thisActive = TRUE,
                                                                  !.branchTaken = TRUE]),
                          defines |-> defines]
       ELSE IF directive = Kw_endif
       THEN IF Len(stack) > 0
            THEN [stack |-> SubSeq(stack, 1, Len(stack) - 1), defines |-> defines]
            ELSE same
       ELSE same

\* const out = clean.split(''); stack = []; index = 0.  `log` is a history field: one
\* entry per line read, with the directive and its trimmed rest, the defines before
\* it, and the stack before and after it.
PreStart(clean, defines) ==
    [clean    |-> clean,
     defines0 |-> defines,
     defines  |-> defines,
     out      |-> clean,
     stack    |-> <<>>,
     index    |-> 0,
     log      |-> <<>>,
     returned |-> FALSE,
     result   |-> <<>>]

\* One iteration of the while loop: one line.
PreLine(st) ==
    LET lineStart == st.index
        nl        == IndexOf(st.clean, "\n", st.index)
        lineEnd   == IF nl = -1 THEN Len(st.clean) ELSE nl
        lineText  == Slice(st.clean, lineStart, lineEnd)
        dm        == DirectiveMatch(lineText)
        applied   == IF dm # <<>>
                     THEN ApplyDirective(st.stack, st.defines, dm[1].directive, trim(dm[1].rest))
                     ELSE [stack |-> st.stack, defines |-> st.defines]
        blank     == dm # <<>> \/ ~ isActive(st.stack)
    IN [st EXCEPT
           !.stack   = applied.stack,
           !.defines = applied.defines,
           !.out     = IF blank THEN blankLine(st.out, lineStart, lineEnd) ELSE st.out,
           !.index   = lineEnd + 1,
           !.log     = Append(st.log, [lineStart |-> lineStart,
                                       lineEnd   |-> lineEnd,
                                       directive |-> IF dm # <<>> THEN dm[1].directive ELSE <<>>,
                                       rest      |-> IF dm # <<>> THEN trim(dm[1].rest) ELSE <<>>,
                                       defines   |-> st.defines,
                                       before    |-> st.stack,
                                       after     |-> applied.stack])]

\* while (index < clean.length) { ... }
RECURSIVE PreLoop(_)
PreLoop(st) == IF st.index < Len(st.clean) THEN PreLoop(PreLine(st)) ELSE st

\* The whole call: the text returned and the defines set as the call leaves it.
preprocessVerilog(clean, defines) ==
    LET end == PreLoop(PreStart(clean, defines))
    IN [text |-> end.out, defines |-> end.defines]

MaxLines == 4       \* lines of a preprocessor input

MaxBranch == 2      \* lines of one branch of a conditional

NameX == <<"X">>

NameY == <<"Y">>

LF == <<"\n">>

CRLF == <<"\r", "\n">>

\* A directive line: the grave accent, the word, and the argument after a space.
Dir(kw, arg) == <<BackTick>> \o kw \o (IF arg = <<>> THEN <<>> ELSE <<" ">> \o arg)

RECURSIVE JoinLines(_, _)
JoinLines(lines, eol) ==
    IF lines = <<>> THEN <<>>
    ELSE IF Len(lines) = 1 THEN lines[1]
    ELSE lines[1] \o eol \o JoinLines(Tail(lines), eol)

PreLines ==
    { Dir(Kw_ifdef, NameX), Dir(Kw_ifndef, NameY), Dir(Kw_elsif, NameY),
      <<" ">> \o Dir(Kw_else, <<>>), Dir(Kw_endif, <<>>),
      Dir(Kw_define, NameX), Dir(Kw_undef, NameY), Dir(<<"x">>, <<>>), <<"a">> }

PlainLines == { <<"a">>, <<" ", "b">> }

\* Every text of up to MaxLines lines.
LineTexts == {JoinLines(ls, LF) : ls \in SeqsUpTo(PreLines, MaxLines)}

\* One conditional: ifdef X, a branch, else, a branch, endif, with either line ending,
\* the last line terminated or not.
CondTexts ==
    { JoinLines(<<Dir(Kw_ifdef, NameX)>> \o a \o <<Dir(Kw_else, <<>>)>> \o b
                    \o <<Dir(Kw_endif, <<>>)>>, eol) \o last :
      a \in SeqsUpTo(PlainLines, MaxBranch), b \in SeqsUpTo(PlainLines, MaxBranch),
      eol \in {LF, CRLF}, last \in {<<>>, LF, CRLF} }

\* A define or an undef of X, then a conditional on X, with either line ending.
DefineTexts ==
    { JoinLines(<<Dir(kw, NameX), Dir(Kw_ifdef, NameX), <<"a">>, Dir(Kw_endif, <<>>)>>, eol) :
      kw \in {Kw_define, Kw_undef}, eol \in {LF, CRLF} }

PreTexts == LineTexts \cup CondTexts \cup DefineTexts

DefineSets == SUBSET {NameX, NameY}

InitPre ==
    /\ pre \in {PreStart(t, d) : t \in PreTexts, d \in DefineSets}
    /\ OnlyPre

\* const pre = preprocessVerilog(clean, defines)
PreCall ==
    /\ ~ pre.returned
    /\ LET end == PreLoop(pre)
       IN pre' = [end EXCEPT !.returned = TRUE, !.result = end.out]
    /\ UNCHANGED othersPre

NextPre == PreCall

SpecPre == InitPre /\ [][NextPre]_vars

(***************************************************************************)
(* The structural extractor: parseModulesAndInstancesInFile and the        *)
(* functions it calls.  Offsets are the code's (0-based).                  *)
(***************************************************************************)
\* [ \t]
HSpace == {" ", "\t"}

\* `^` under the m flag: the start of the text or just after a line terminator
IsLineStart(text, p) == p = 0 \/ text[p] \in LineTerminators

\* \b at offset p
IsWordBoundary(text, p) ==
    (p > 0 /\ IsWord(text[p])) # (p < Len(text) /\ IsWord(text[p + 1]))

\* the text has `word` at offset p
StartsWith(text, p, word) ==
    p + Len(word) <= Len(text) /\ SubSeq(text, p + 1, p + Len(word)) = word

\* text.indexOf(word, from) for a word of any length, -1 when there is none
IndexOfSeq(text, word, from) ==
    LET hits == {k \in from..Len(text) : StartsWith(text, k, word)}
    IN IF hits = {} THEN -1 ELSE CHOOSE k \in hits : \A h \in hits : k <= h

\* the least member of a non-empty set of offsets
Least(S) == CHOOSE k \in S : \A h \in S : k <= h

Kw_module == <<"m", "o", "d", "u", "l", "e">>

Kw_endmodule == <<"e", "n", "d", "m", "o", "d", "u", "l", "e">>

\* /^[ \t]*module\s+([a-zA-Z_]\w*)/ tried at offset p: <<>> or the match
ModuleMatchAt(text, p) ==
    LET q  == p + RunLength(text, p, HSpace)
        r  == q + Len(Kw_module)
        ws == RunLength(text, r, WhiteSpace)
        n  == r + ws
    IN IF /\ IsLineStart(text, p)
          /\ StartsWith(text, q, Kw_module)
          /\ ws >= 1
          /\ n < Len(text)
          /\ IsIdentStart(text[n + 1])
       THEN << [name      |-> Slice(text, n, n + RunLength(text, n, WordChars)),
                start     |-> p,
                bodyStart |-> n + RunLength(text, n, WordChars)] >>
       ELSE <<>>

\* while ((m = moduleRegex.exec(clean)) !== null) moduleMatches.push(...)
RECURSIVE ModuleMatches(_, _)
ModuleMatches(text, lastIndex) ==
    LET hits == {p \in lastIndex..Len(text) : ModuleMatchAt(text, p) # <<>>}
    IN IF hits = {} THEN <<>>
       ELSE LET m == ModuleMatchAt(text, Least(hits))[1]
            IN <<m>> \o ModuleMatches(text, m.bodyStart)

\* endRegex.lastIndex = from; endRegex.exec(clean): the match index, -1 for null
EndMatch(text, from) ==
    LET hits == {p \in from..Len(text) :
                    /\ StartsWith(text, p, Kw_endmodule)
                    /\ IsWordBoundary(text, p)
                    /\ IsWordBoundary(text, p + Len(Kw_endmodule))}
    IN IF hits = {} THEN -1 ELSE Least(hits)

\* getLineStarts: 0 and the offset after every newline
getLineStarts(text) ==
    LET nls == {k \in 1..Len(text) : text[k] = "\n"}
    IN [i \in 1..(Cardinality(nls) + 1) |->
           IF i = 1 THEN 0
           ELSE CHOOSE k \in nls : Cardinality({h \in nls : h < k}) = i - 2]

\* new vscode.Position(line, character)
Position(line, character) == [line |-> line, character |-> character]

\* The binary search of offsetToPosition over lineStarts[low..high] (0-based).
RECURSIVE SearchLine(_, _, _, _)
SearchLine(lineStarts, offset, low, high) ==
    IF low <= high
    THEN LET mid   == (low + high) \div 2
             start == lineStarts[mid + 1]
         IN IF start = offset THEN Position(mid, 0)
            ELSE IF start < offset THEN SearchLine(lineStarts, offset, mid + 1, high)
            ELSE SearchLine(lineStarts, offset, low, mid - 1)
    ELSE LET line == Max(0, low - 1)
         IN Position(line, offset - lineStarts[line + 1])

offsetToPosition(text, offset) ==
    SearchLine(getLineStarts(text), offset, 0, Len(getLineStarts(text)) - 1)

\* new vscode.Location(uri, pos)
Location(uri, pos) == [uri |-> uri, pos |-> pos]

UpperSeq == <<"A", "B", "C", "D", "E", "F", "G", "H", "I", "J", "K", "L", "M", "N", "O", "P", "Q", "R", "S", "T", "U", "V", "W", "X", "Y", "Z">>

LowerSeq == <<"a", "b", "c", "d", "e", "f", "g", "h", "i", "j", "k", "l", "m", "n", "o", "p", "q", "r", "s", "t", "u", "v", "w", "x", "y", "z">>

\* String.prototype.toLowerCase
toLowerCase(word) ==
    [k \in 1..Len(word) |->
        IF word[k] \in Upper
        THEN LowerSeq[CHOOSE i \in 1..26 : UpperSeq[i] = word[k]]
        ELSE word[k]]

keywords ==
    { <<"i", "f">>, <<"e", "l", "s", "e">>,
      <<"b", "e", "g", "i", "n">>, <<"e", "n", "d">>,
      <<"c", "a", "s", "e">>, <<"c", "a", "s", "e", "x">>,
      <<"c", "a", "s", "e", "z">>, <<"f", "o", "r">>,
      <<"w", "h", "i", "l", "e">>, <<"r", "e", "p", "e", "a", "t">>,
      <<"f", "o", "r", "e", "v", "e", "r">>, <<"a", "l", "w", "a", "y", "s">>,
      <<"a", "l", "w", "a", "y", "s", "_", "f", "f">>, <<"a", "l", "w", "a", "y", "s", "_", "c", "o", "m", "b">>,
      <<"a", "l", "w", "a", "y", "s", "_", "l", "a", "t", "c", "h">>, <<"a", "s", "s", "i", "g", "n">>,
      <<"d", "e", "a", "s", "s", "i", "g", "n">>, <<"f", "o", "r", "c", "e">>,
      <<"r", "e", "l", "e", "a", "s", "e">>, <<"w", "i", "r", "e">>,
      <<"r", "e", "g">>, <<"l", "o", "g", "i", "c">>,
      <<"t", "r", "i">>, <<"t", "r", "i", "0">>,
      <<"t", "r", "i", "1">>, <<"m", "o", "d", "u", "l", "e">>,
      <<"e", "n", "d", "m", "o", "d", "u", "l", "e">>, <<"f", "u", "n", "c", "t", "i", "o", "n">>,
      <<"e", "n", "d", "f", "u", "n", "c", "t", "i", "o", "n">>, <<"t", "a", "s", "k">>,
      <<"e", "n", "d", "t", "a", "s", "k">>, <<"g", "e", "n", "e", "r", "a", "t", "e">>,
      <<"e", "n", "d", "g", "e", "n", "e", "r", "a", "t", "e">>, <<"i", "n", "i", "t", "i", "a", "l">>,
      <<"f", "i", "n", "a", "l">>, <<"p", "a", "r", "a", "m", "e", "t", "e", "r">>,
      <<"l", "o", "c", "a", "l", "p", "a", "r", "a", "m">>, <<"s", "p", "e", "c", "i", "f", "y">>,
      <<"e", "n", "d", "s", "p", "e", "c", "i", "f", "y">>, <<"p", "r", "i", "m", "i", "t", "i", "v", "e">>,
      <<"e", "n", "d", "p", "r", "i", "m", "i", "t", "i", "v", "e">> }

\* the offset after the white space that starts at p
SkipSpace(text, p) == p + RunLength(text, p, WhiteSpace)

\* the offset after the word characters that start at p
SkipWord(text, p) == p + RunLength(text, p, WordChars)

IsIdentAt(text, p) == p < Len(text) /\ IsIdentStart(text[p + 1])

\* (?:#\s*\([^;]*\))?\s*\( tried at offset a, after the white space that follows the
\* instance name: the offset past the final parenthesis, -1 when there is no match.
\* [^;]* is greedy, so the last `)` before the next semicolon that is followed by
\* white space and `(` closes the parameter list.
InstTailEnd(text, a) ==
    IF At(text, a) = "("
    THEN a + 1
    ELSE IF At(text, a) = "#" /\ At(text, SkipSpace(text, a + 1)) = "("
    THEN LET open   == SkipSpace(text, a + 1)
             semi   == IndexOf(text, ";", open + 1)
             limit  == IF semi = -1 THEN Len(text) ELSE semi
             closes == {r \in (open + 1)..(limit - 1) :
                           /\ At(text, r) = ")"
                           /\ At(text, SkipSpace(text, r + 1)) = "("}
         IN IF closes = {} THEN -1
            ELSE SkipSpace(text, (CHOOSE r \in closes : \A h \in closes : r >= h) + 1) + 1
    ELSE -1

InstAnchor_Anywhere(text, p) == TRUE

\* the `^` of instRegex
InstAnchor(text, p) == IsLineStart(text, p)

\* instRegex tried at offset p: <<>> or the two names, the match index and its end
InstMatchAt(text, p) ==
    LET q        == p + RunLength(text, p, HSpace)
        afterId  == SkipSpace(text, SkipWord(text, q))
        labelled == At(text, afterId) = ":"
        typeAt   == IF labelled THEN SkipSpace(text, afterId + 1) ELSE q
        typeEnd  == SkipWord(text, typeAt)
        nameAt   == SkipSpace(text, typeEnd)
        nameEnd  == SkipWord(text, nameAt)
        tailEnd  == InstTailEnd(text, SkipSpace(text, nameEnd))
    IN IF /\ InstAnchor(text, p)
          /\ IsIdentAt(text, q)
          /\ IsIdentAt(text, typeAt)
          /\ nameAt > typeEnd
          /\ IsIdentAt(text, nameAt)
          /\ tailEnd # -1
       THEN << [moduleName   |-> Slice(text, typeAt, typeEnd),
                instanceName |-> Slice(text, nameAt, nameEnd),
                index        |-> p,
                end          |-> tailEnd] >>
       ELSE <<>>

\* findMatchingParen(text, openIndex, maxIndex): scanning i = from.., the depth before
\* text[i] being `depth`
RECURSIVE ParenScan(_, _, _, _)
ParenScan(text, i, maxIndex, depth) ==
    IF i <= maxIndex /\ i < Len(text)
    THEN IF At(text, i) = "(" THEN ParenScan(text, i + 1, maxIndex, depth + 1)
         ELSE IF At(text, i) = ")"
         THEN IF depth - 1 = 0 THEN i ELSE ParenScan(text, i + 1, maxIndex, depth - 1)
         ELSE ParenScan(text, i + 1, maxIndex, depth)
    ELSE -1

findMatchingParen(text, openIndex, maxIndex) == ParenScan(text, openIndex, maxIndex, 0)

\* new vscode.Location(uri, pos) for an offset of the text
LocationAt(text, uri, offset) == Location(uri, offsetToPosition(text, offset))

\* The named connections `.portName(expr)` of the argument list opened by the
\* parenthesis at argOpen, in textual order: the port name, the trimmed text between
\* the parentheses, and the location of the dot.
RECURSIVE parseBindings(_, _, _, _)
parseBindings(text, uri, from, argClose) ==
    LET dots == {d \in from..(argClose - 1) :
                    /\ At(text, d) = "."
                    /\ IsIdentAt(text, d + 1)
                    /\ At(text, SkipSpace(text, SkipWord(text, d + 1))) = "("
                    /\ findMatchingParen(text, SkipSpace(text, SkipWord(text, d + 1)),
                                         argClose - 1) # -1}
    IN IF dots = {} THEN <<>>
       ELSE LET d     == Least(dots)
                open  == SkipSpace(text, SkipWord(text, d + 1))
                close == findMatchingParen(text, open, argClose - 1)
            IN << [portName |-> Slice(text, d + 1, SkipWord(text, d + 1)),
                   expr     |-> trim(Slice(text, open + 1, close)),
                   location |-> LocationAt(text, uri, d)] >>
               \o parseBindings(text, uri, close + 1, argClose)

\* The bindings of the instantiation whose match ends at `end` (past its opening
\* parenthesis); none when the parenthesis is never closed.
BindingsOf(text, uri, end) ==
    LET argClose == findMatchingParen(text, end - 1, Len(text))
    IN IF argClose = -1 THEN <<>> ELSE parseBindings(text, uri, end, argClose)

\* The while loop of parseInstantiationsInText from instRegex.lastIndex on.
RECURSIVE InstLoop(_, _, _, _)
InstLoop(clean, uri, lastIndex, bodyEnd) ==
    LET hits == {p \in lastIndex..Len(clean) : InstMatchAt(clean, p) # <<>>}
    IN IF hits = {} THEN <<>>
       ELSE LET m == InstMatchAt(clean, Least(hits))[1]
            IN IF m.index >= bodyEnd THEN <<>>
               ELSE IF \/ toLowerCase(m.moduleName) \in keywords
                       \/ toLowerCase(m.instanceName) \in keywords
               THEN InstLoop(clean, uri, m.end, bodyEnd)
               ELSE << [moduleName   |-> m.moduleName,
                        instanceName |-> m.instanceName,
                        location     |-> LocationAt(clean, uri, m.index),
                        bindings     |-> BindingsOf(clean, uri, m.end)] >>
                    \o InstLoop(clean, uri, m.end, bodyEnd)

parseInstantiationsInText(clean, uri, bodyStart, bodyEnd) ==
    InstLoop(clean, uri, bodyStart, bodyEnd)

\* String.prototype.split(',')
RECURSIVE Split(_, _)
Split(text, sep) ==
    LET at == IndexOf(text, sep, 0)
    IN IF at = -1 THEN <<text>>
       ELSE <<Slice(text, 0, at)>> \o Split(Slice(text, at + 1, Len(text)), sep)

\* String.prototype.trimEnd
trimEnd(text) ==
    LET keep == {k \in 1..Len(text) : ~ IsSpace(text[k])}
    IN IF keep = {} THEN <<>>
       ELSE SubSeq(text, 1, CHOOSE k \in keep : \A h \in keep : k >= h)

Directions == <<<<"i", "n", "p", "u", "t">>, <<"o", "u", "t", "p", "u", "t">>, <<"i", "n", "o", "u", "t">>, <<"r", "e", "f">>>>

\* /^(input|output|inout|ref)\b(.*)$/i.exec(trimmed): <<>> or the two groups
DirMatch(trimmed) ==
    LET fits == {d \in 1..Len(Directions) :
                    /\ Len(Directions[d]) <= Len(trimmed)
                    /\ toLowerCase(Slice(trimmed, 0, Len(Directions[d]))) = Directions[d]
                    /\ IsWordBoundary(trimmed, Len(Directions[d]))
                    /\ \A k \in (Len(Directions[d]) + 1)..Len(trimmed) :
                           trimmed[k] \notin LineTerminators}
    IN IF fits = {} THEN <<>>
       ELSE LET d == Least(fits)
            IN << [keyword |-> Slice(trimmed, 0, Len(Directions[d])),
                   rest    |-> Slice(trimmed, Len(Directions[d]), Len(trimmed))] >>

\* /([a-zA-Z_]\w*)\s*$/.exec(nameSource): <<>> or the name
PortNameMatch(nameSource) ==
    LET hits == {k \in 0..(Len(nameSource) - 1) :
                    /\ IsIdentAt(nameSource, k)
                    /\ SkipSpace(nameSource, SkipWord(nameSource, k)) = Len(nameSource)}
    IN IF hits = {} THEN <<>>
       ELSE <<Slice(nameSource, Least(hits), SkipWord(nameSource, Least(hits)))>>

\* /(\[[^\]]+\])/.exec(nameSource): the range text, or undefined
RangeText(nameSource) ==
    LET hits == {k \in 0..(Len(nameSource) - 1) :
                    /\ At(nameSource, k) = "["
                    /\ IndexOf(nameSource, "]", k + 1) >= k + 2}
    IN IF hits = {} THEN UNDEF
       ELSE Slice(nameSource, Least(hits), IndexOf(nameSource, "]", Least(hits) + 1) + 1)

\* The body of the loop over parts for one non-empty fragment: <<>> when the fragment
\* has no name, else the port and the local index of the fragment.
PortOfPart(clean, uri, headerInner, innerStart, partOriginal, searchOffset) ==
    LET trimmed    == trim(partOriginal)
        dirMatch   == DirMatch(trimmed)
        direction  == IF dirMatch # <<>> THEN toLowerCase(dirMatch[1].keyword)
                      ELSE <<"u", "n", "k", "n", "o", "w", "n">>
        rest       == IF dirMatch # <<>> THEN trim(dirMatch[1].rest) ELSE trimmed
        source0    == IF rest # <<>> THEN rest ELSE trimmed
        eqIndex    == IndexOf(source0, "=", 0)
        nameSource == IF eqIndex # -1 THEN trimEnd(Slice(source0, 0, eqIndex)) ELSE source0
        nameMatch  == PortNameMatch(nameSource)
        found      == IndexOfSeq(headerInner, partOriginal, searchOffset)
        localIndex == IF found = -1 THEN searchOffset ELSE found
    IN IF nameMatch = <<>> THEN <<>>
       ELSE << [port |-> [direction |-> direction,
                          name      |-> nameMatch[1],
                          rangeText |-> RangeText(nameSource),
                          location  |-> LocationAt(clean, uri,
                                            innerStart + localIndex
                                            + Max(IndexOfSeq(partOriginal, nameMatch[1], 0), 0))],
                localIndex |-> localIndex] >>

\* for (const rawPart of parts) { ... }
RECURSIVE PortLoop(_, _, _, _, _, _, _)
PortLoop(clean, uri, headerInner, innerStart, parts, i, searchOffset) ==
    IF i > Len(parts) THEN <<>>
    ELSE IF trim(parts[i]) = <<>>
    THEN PortLoop(clean, uri, headerInner, innerStart, parts, i + 1,
                  searchOffset + Len(parts[i]) + 1)
    ELSE LET made == PortOfPart(clean, uri, headerInner, innerStart, parts[i], searchOffset)
         IN IF made = <<>>
            THEN PortLoop(clean, uri, headerInner, innerStart, parts, i + 1,
                          searchOffset + Len(parts[i]) + 1)
            ELSE <<made[1].port>>
                 \o PortLoop(clean, uri, headerInner, innerStart, parts, i + 1,
                             made[1].localIndex + Len(parts[i]) + 1)

\* The offset where the search for the port list starts: past an optional parameter
\* list; -1 when that list is not closed before the header ends.
PortScanIndex(clean, bodyStart, headerEnd) ==
    LET scanIndex == SkipSpace(clean, bodyStart)
        paramOpen == IndexOf(clean, "(", scanIndex)
    IN IF scanIndex < headerEnd /\ At(clean, scanIndex) = "#"
          /\ paramOpen # -1 /\ paramOpen < headerEnd
       THEN IF findMatchingParen(clean, paramOpen, headerEnd) = -1 THEN -1
            ELSE findMatchingParen(clean, paramOpen, headerEnd) + 1
       ELSE scanIndex

parseModulePortsFromHeader(clean, uri, moduleStart, bodyStart) ==
    LET headerEnd  == IndexOf(clean, ";", bodyStart)
        scanIndex  == PortScanIndex(clean, bodyStart, headerEnd)
        parenStart == IndexOf(clean, "(", scanIndex)
        parenEnd   == findMatchingParen(clean, parenStart, headerEnd)
    IN IF headerEnd = -1 THEN <<>>
       ELSE IF scanIndex = -1 THEN <<>>
       ELSE IF parenStart = -1 \/ parenStart >= headerEnd THEN <<>>
       ELSE IF parenEnd = -1 \/ parenEnd > headerEnd THEN <<>>
       ELSE PortLoop(clean, uri, Slice(clean, parenStart + 1, parenEnd), parenStart + 1,
                     Split(Slice(clean, parenStart + 1, parenEnd), ","), 1, 0)

BodyEnd_IgnoreNext(clean, cur, nextStart) ==
    IF EndMatch(clean, cur.bodyStart) # -1 THEN EndMatch(clean, cur.bodyStart) ELSE Len(clean)

\* The end of the body of the module matched at `cur`, `nextStart` being the start of
\* the next match (-1 when there is none).
BodyEnd(clean, cur, nextStart) ==
    LET endMatch == EndMatch(clean, cur.bodyStart)
        bodyEnd  == IF endMatch # -1 THEN endMatch ELSE Len(clean)
    IN IF nextStart # -1 /\ nextStart < bodyEnd THEN nextStart ELSE bodyEnd

\* One iteration of the for loop over moduleMatches: the module pushed for entry i
\* (counted from 1).
ModuleOf(clean, uri, moduleMatches, i) ==
    LET cur == moduleMatches[i]
    IN [name            |-> cur.name,
        uri             |-> uri,
        definitionRange |-> [start |-> offsetToPosition(clean, cur.start),
                             end   |-> offsetToPosition(clean, cur.start)],
        instances       |-> parseInstantiationsInText(clean, uri, cur.bodyStart,
                                BodyEnd(clean, cur,
                                        IF i + 1 <= Len(moduleMatches)
                                        THEN moduleMatches[i + 1].start ELSE -1)),
        ports           |-> parseModulePortsFromHeader(clean, uri, cur.start, cur.bodyStart)]

\* The for loop over moduleMatches, from entry i on.
RECURSIVE ModuleLoop(_, _, _, _)
ModuleLoop(clean, uri, moduleMatches, i) ==
    IF i > Len(moduleMatches) THEN <<>>
    ELSE <<ModuleOf(clean, uri, moduleMatches, i)>> \o ModuleLoop(clean, uri, moduleMatches, i + 1)

parseModulesAndInstancesInFile(source, uri, defines, enablePreprocess) ==
    LET stripped == stripVerilogComments(source)
        pp       == preprocessVerilog(stripped, defines)
        clean    == IF enablePreprocess THEN pp.text ELSE stripped
    IN [modules |-> ModuleLoop(clean, uri, ModuleMatches(clean, 0), 1),
        defines |-> IF enablePreprocess THEN pp.defines ELSE defines]

\* The texts handed to the extractor: a module header, a separator, one statement, a
\* separator, endmodule, and possibly a second module after it.
HeaderPlain == <<"m", "o", "d", "u", "l", "e", " ", "m", "(", "i", "n", "p", "u", "t", " ", "a", ",", " ", "o", "u", "t", "p", "u", "t", " ", "[", "7", ":", "0", "]", " ", "b", ")", ";">>

HeaderBare == <<"m", "o", "d", "u", "l", "e", " ", "m", ";">>

HeaderParam == <<"m", "o", "d", "u", "l", "e", " ", "m", " ", "#", "(", "p", "a", "r", "a", "m", "e", "t", "e", "r", " ", "W", " ", "=", " ", "8", ")", " ", "(", "i", "n", "p", "u", "t", " ", "[", "W", "-", "1", ":", "0", "]", " ", "a", ",", " ", "b", ")", ";">>

ExHeaders == {HeaderPlain, HeaderBare, HeaderParam}

StmtInst == <<"s", "u", "b", " ", "u", "1", "(", ".", "a", "(", "a", ")", ",", " ", ".", "b", "(", "n", "e", "t", "1", ")", ")", ";">>

StmtLabelled == <<"g", ":", " ", "s", "u", "b", " ", "u", "1", " ", "(", ".", "a", "(", "a", ")", ",", " ", ".", "b", "(", " ", "n", "e", "t", "1", " ", ")", ")", ";">>

StmtParam == <<"s", "u", "b", " ", "u", "1", " ", "#", "(", ".", "W", "(", "8", ")", ")", " ", "(", ".", "a", "(", "a", ")", ")", ";">>

StmtKeyword == <<"w", "i", "r", "e", " ", "u", "1", "(", ".", "a", "(", "a", ")", ")", ";">>

StmtAssign == <<"a", "s", "s", "i", "g", "n", " ", "x", " ", "=", " ", "f", "(", "a", ")", ";">>

ExStatements == {StmtInst, StmtLabelled, StmtParam, StmtKeyword, StmtAssign}

\* What stands between the header and the statement.
ExSeparators == {<<" ">>, <<"\n">>, <<"\n", " ", " ">>, <<"\r", "\n">>}

ExClosers == {<<" ">>, <<"\n">>}

ExTails == {<<>>, <<"\n", "m", "o", "d", "u", "l", "e", " ", "n", "(", "c", ")", ";", " ", "e", "n", "d", "m", "o", "d", "u", "l", "e", "\n">>}

ExText(header, sep, stmt, closer, tail) ==
    header \o sep \o stmt \o closer \o Kw_endmodule \o tail

ExTexts ==
    { ExText(h, sp, st, c, t) :
      h \in ExHeaders, sp \in ExSeparators, st \in ExStatements, c \in ExClosers,
      t \in ExTails }

\* Two modules a and b with one instantiation each; the first is closed by endmodule,
\* by nothing, or holds a word that only starts with endmodule; an instantiation may
\* stand between the two modules and after the second.
BodyEnders == {<<>>, <<"e", "n", "d", "m", "o", "d", "u", "l", "e", "\n">>, <<"w", "i", "r", "e", " ", "e", "n", "d", "m", "o", "d", "u", "l", "e", "_", "t", ";", "\n">>}

BodyStrays == {<<>>, <<"s", "u", "b", " ", "u", "3", "(", ".", "a", "(", "a", ")", ")", ";", "\n">>}

BodyClosers == {<<>>, <<"e", "n", "d", "m", "o", "d", "u", "l", "e", "\n">>}

BodyAfters == {<<>>, <<"s", "u", "b", " ", "u", "4", "(", ".", "a", "(", "a", ")", ")", ";", "\n">>}

BodyText(ender, stray, closer, after) ==
    <<"m", "o", "d", "u", "l", "e", " ", "a", ";", "\n">> \o <<"s", "u", "b", " ", "u", "1", "(", ".", "a", "(", "a", ")", ")", ";", "\n">> \o ender \o stray
    \o <<"m", "o", "d", "u", "l", "e", " ", "b", ";", "\n">> \o <<"s", "u", "b", " ", "u", "2", "(", ".", "a", "(", "a", ")", ")", ";", "\n">> \o closer \o after

BodyTexts ==
    { BodyText(e, s, c, a) :
      e \in BodyEnders, s \in BodyStrays, c \in BodyClosers, a \in BodyAfters }

\* A module a whose header has no semicolon and no parentheses, has a port list but no
\* semicolon, or is complete, followed by a complete module b with the one port x.
PortHeaders == {<<"m", "o", "d", "u", "l", "e", " ", "a", "\n">>, <<"m", "o", "d", "u", "l", "e", " ", "a", "(", "i", "n", "p", "u", "t", " ", "y", ")", "\n">>, <<"m", "o", "d", "u", "l", "e", " ", "a", ";", "\n">>, <<"m", "o", "d", "u", "l", "e", " ", "a", "(", "i", "n", "p", "u", "t", " ", "y", ")", ";", "\n">>}

PortText(header) == header \o <<"m", "o", "d", "u", "l", "e", " ", "b", "(", "i", "n", "p", "u", "t", " ", "x", ")", ";", "\n">> \o <<"e", "n", "d", "m", "o", "d", "u", "l", "e", "\n">>

PortTexts == {PortText(h) : h \in PortHeaders}

FileUri == "file:///m.v"

\* A call of parseModulesAndInstancesInFile about to start.  `at` is the position in
\* the function, `i` the index of the for loop (0-based).
ExStart(source, uri, defines, enablePreprocess) ==
    [source           |-> source,
     uri              |-> uri,
     defines          |-> defines,
     enablePreprocess |-> enablePreprocess,
     at               |-> "strip",
     clean            |-> <<>>,
     moduleMatches    |-> <<>>,
     i                |-> 0,
     modules          |-> <<>>,
     returned         |-> FALSE]

InitEx ==
    /\ ex \in {ExStart(t, FileUri, d, e) :
                  t \in ExTexts \cup BodyTexts \cup PortTexts, d \in SUBSET {NameX}, e \in BOOLEAN}
    /\ OnlyEx

\* let clean = stripVerilogComments(source)
ExStrip ==
    /\ ex.at = "strip"
    /\ ex' = [ex EXCEPT !.clean = stripVerilogComments(ex.source), !.at = "preprocess"]
    /\ UNCHANGED othersEx

\* if (enablePreprocess) clean = preprocessVerilog(clean, defines)
ExPreprocess ==
    /\ ex.at = "preprocess"
    /\ ex' = IF ex.enablePreprocess
             THEN [ex EXCEPT !.clean = preprocessVerilog(ex.clean, ex.defines).text,
                             !.defines = preprocessVerilog(ex.clean, ex.defines).defines,
                             !.at = "match"]
             ELSE [ex EXCEPT !.at = "match"]
    /\ UNCHANGED othersEx

\* the while loop that fills moduleMatches
ExMatchModules ==
    /\ ex.at = "match"
    /\ ex' = [ex EXCEPT !.moduleMatches = ModuleMatches(ex.clean, 0), !.i = 0, !.at = "modules"]
    /\ UNCHANGED othersEx

\* one iteration of the for loop over moduleMatches
ExModule ==
    /\ ex.at = "modules"
    /\ ex.i < Len(ex.moduleMatches)
    /\ ex' = [ex EXCEPT
                 !.modules = Append(ex.modules,
                                    ModuleOf(ex.clean, ex.uri, ex.moduleMatches, ex.i + 1)),
                 !.i = ex.i + 1]
    /\ UNCHANGED othersEx

\* return modules
ExReturn ==
    /\ ex.at = "modules"
    /\ ex.i >= Len(ex.moduleMatches)
    /\ ex' = [ex EXCEPT !.at = "done", !.returned = TRUE]
    /\ UNCHANGED othersEx

NextEx == ExStrip \/ ExPreprocess \/ ExMatchModules \/ ExModule \/ ExReturn

SpecEx == InitEx /\ [][NextEx]_vars

(***************************************************************************)
(* parseFiles: the loop over the files, one iteration per step (each one   *)
(* awaits the read of its file), then the aggregation into the index.      *)
(***************************************************************************)
MaxFiles == 3       \* files of a scan

FileUris == <<"file:///f1.v", "file:///f2.v", "file:///f3.v", "file:///f4.v", "file:///f5.v">>

\* The content of a file whose read is rejected.
Unreadable == <<"<unreadable>">>

TextModuleA == <<"m", "o", "d", "u", "l", "e", " ", "a", ";", "\n", "e", "n", "d", "m", "o", "d", "u", "l", "e", "\n">>

TextModuleB == <<"m", "o", "d", "u", "l", "e", " ", "b", ";", "\n", " ", " ", "a", " ", "u", "1", "(", ")", ";", "\n", "e", "n", "d", "m", "o", "d", "u", "l", "e", "\n">>

\* `ifdef X / `undef X / `else / `define X / `endif: defines X where it is not defined
\* and removes it where it is.
TextToggleX ==
    <<BackTick>> \o <<"i", "f", "d", "e", "f", " ", "X", "\n">> \o <<BackTick>> \o <<"u", "n", "d", "e", "f", " ", "X", "\n">> \o <<BackTick>> \o <<"e", "l", "s", "e", "\n">> \o <<BackTick>> \o <<"d", "e", "f", "i", "n", "e", " ", "X", "\n">> \o <<BackTick>> \o <<"e", "n", "d", "i", "f", "\n">>

\* `ifdef X / module a / `else / module b / `endif.
TextIfdefXModuleAElseB ==
    <<BackTick>> \o <<"i", "f", "d", "e", "f", " ", "X", "\n">> \o TextModuleA \o <<BackTick>> \o <<"e", "l", "s", "e", "\n">> \o TextModuleB \o <<BackTick>> \o <<"e", "n", "d", "i", "f", "\n">>

\* What a file can hold: one module, two modules, directives that change the defines
\* and no module, a module for each branch of a condition; or its read fails.
FileContents ==
    { TextModuleA, TextModuleA \o TextModuleB, TextToggleX, TextIfdefXModuleAElseB, Unreadable }

FileLists ==
    { [k \in 1..Len(cs) |-> [uri |-> FileUris[k], content |-> cs[k]]] :
      cs \in SeqsUpTo(FileContents, MaxFiles) }

\* A call of parseFiles about to start: modules = [], activeDefines = defines ?? new
\* Set(), enablePreprocess = options?.enablePreprocess ?? true; an argument left out
\* is Null, one given is Some(value).  `fileDefines` is a history field: the set each
\* file was parsed with, as its parse left it (Null for a file that was not read).
PfStart(files, defines, enablePreprocess) ==
    [files            |-> files,
     defines          |-> defines,
     activeDefines    |-> IF defines = Null THEN {} ELSE defines[1],
     enablePreprocess |-> IF enablePreprocess = Null THEN TRUE ELSE enablePreprocess[1],
     i                |-> 0,
     modules          |-> <<>>,
     fileDefines      |-> <<>>,
     returned         |-> FALSE,
     result           |-> Null]

InitFiles ==
    /\ pf \in {PfStart(fs, d, e) : fs \in FileLists, d \in {Null, Some({}), Some({NameX})},
                                   e \in {Null, Some(FALSE)}}
    /\ OnlyFiles

\* A variant that runs the preprocessor whatever the option says.
PfFile_AlwaysPreprocess ==
    /\ ~ pf.returned
    /\ pf.i < Len(pf.files)
    /\ LET file == pf.files[pf.i + 1]
       IN IF file.content = Unreadable
          THEN pf' = [pf EXCEPT !.i = pf.i + 1, !.fileDefines = Append(@, Null)]
          ELSE \E stripped \in {stripVerilogComments(file.content)} :
               \E pp \in {preprocessVerilog(stripped, pf.activeDefines)} :
               \E modsInFile \in {ModuleLoop(pp.text, file.uri, ModuleMatches(pp.text, 0), 1)} :
                   pf' = [pf EXCEPT !.i = pf.i + 1,
                                    !.modules = @ \o modsInFile,
                                    !.fileDefines = Append(@, Some(pp.defines))]
    /\ UNCHANGED othersFiles

\* A variant in which a failed read ends the loop.
PfFile_StopsAtFailure ==
    /\ ~ pf.returned
    /\ pf.i < Len(pf.files)
    /\ LET file == pf.files[pf.i + 1]
       IN IF file.content = Unreadable
          THEN pf' = [pf EXCEPT !.i = Len(pf.files), !.fileDefines = Append(@, Null)]
          ELSE \E stripped \in {stripVerilogComments(file.content)} :
               \E pp \in {IF pf.enablePreprocess
                          THEN preprocessVerilog(stripped, pf.activeDefines)
                          ELSE [text |-> stripped, defines |-> pf.activeDefines]} :
               \E modsInFile \in {ModuleLoop(pp.text, file.uri, ModuleMatches(pp.text, 0), 1)} :
                   pf' = [pf EXCEPT !.i = pf.i + 1,
                                    !.modules = @ \o modsInFile,
                                    !.fileDefines = Append(@, Some(pp.defines))]
    /\ UNCHANGED othersFiles

\* A variant that hands every file the one set, so that a file sees what the files
\* before it defined.
PfFile_SharedDefines ==
    /\ ~ pf.returned
    /\ pf.i < Len(pf.files)
    /\ LET file == pf.files[pf.i + 1]
       IN IF file.content = Unreadable
          THEN pf' = [pf EXCEPT !.i = pf.i + 1, !.fileDefines = Append(@, Null)]
          ELSE \E stripped \in {stripVerilogComments(file.content)} :
               \E pp \in {IF pf.enablePreprocess
                          THEN preprocessVerilog(stripped, pf.activeDefines)
                          ELSE [text |-> stripped, defines |-> pf.activeDefines]} :
               \E modsInFile \in {ModuleLoop(pp.text, file.uri, ModuleMatches(pp.text, 0), 1)} :
                   pf' = [pf EXCEPT !.i = pf.i + 1,
                                    !.modules = @ \o modsInFile,
                                    !.activeDefines = pp.defines,
                                    !.fileDefines = Append(@, Some(pp.defines))]
    /\ UNCHANGED othersFiles

\* One iteration of for (const uri of files): the file is read and handed to
\* parseModulesAndInstancesInFile with a copy of activeDefines (the sanitized text, the
\* preprocessed text and the modules of that call are bound one after the other), or
\* the read fails and the catch block logs it.
PfFile ==
    /\ ~ pf.returned
    /\ pf.i < Len(pf.files)
    /\ LET file == pf.files[pf.i + 1]
       IN IF file.content = Unreadable
          THEN pf' = [pf EXCEPT !.i = pf.i + 1, !.fileDefines = Append(@, Null)]
          ELSE \E stripped \in {stripVerilogComments(file.content)} :
               \E pp \in {IF pf.enablePreprocess
                          THEN preprocessVerilog(stripped, pf.activeDefines)
                          ELSE [text |-> stripped, defines |-> pf.activeDefines]} :
               \E modsInFile \in {ModuleLoop(pp.text, file.uri, ModuleMatches(pp.text, 0), 1)} :
                   pf' = [pf EXCEPT !.i = pf.i + 1,
                                    !.modules = @ \o modsInFile,
                                    !.fileDefines = Append(@, Some(pp.defines))]
    /\ UNCHANGED othersFiles

\* The two maps are filled and { modules, modulesByName, modulesByFile } is returned.
PfReturn ==
    /\ ~ pf.returned
    /\ pf.i >= Len(pf.files)
    /\ pf' = [pf EXCEPT !.returned = TRUE, !.result = Some(BuildIndex(pf.modules))]
    /\ UNCHANGED othersFiles

NextFiles == PfFile \/ PfReturn

SpecFiles == InitFiles /\ [][NextFiles]_vars

(***************************************************************************)
(* The refresh controller of activate(): scheduleFullRefresh debounces the  *)
(* requests with a 300 ms timer, fullRefresh scans the workspace and        *)
(* publishes the result in currentDesign.  A fullRefresh call is suspended  *)
(* at each of its awaits, where the other handlers can run.  A design is an *)
(* object on rf.heap, and currentDesign and the providers hold references.  *)
(***************************************************************************)
MaxRequests == 2    \* most refresh requests (commands, watcher events) in a behaviour

\* The workspaces tried: no folder open, an empty folder, one file, two files.
NoFolder == Null

WorkspaceShapes ==
    << <<>>,
       <<Shape("a", <<>>), Shape("b", <<"a">>)>>,
       <<Shape("a", <<>>), Shape("b", <<"a">>), Shape("top", <<"b">>)>> >>

Workspaces == {NoFolder} \cup {Some(MkModules(WorkspaceShapes[k])) : k \in 1..Len(WorkspaceShapes)}

\* The uris of the .v/.sv files of a workspace, in ascending order.
RECURSIVE UrisUpTo(_, _)
UrisUpTo(ws, n) ==
    IF n = 0 THEN <<>>
    ELSE LET rest == UrisUpTo(ws, n - 1)
         IN IF \E i \in 1..Len(ws[1]) : ws[1][i].uri = n THEN Append(rest, n) ELSE rest

WorkspaceFiles(ws) == IF ws = NoFolder THEN <<>> ELSE UrisUpTo(ws, Len(ws[1]))

FileExists(ws, uri) == uri \in Range(WorkspaceFiles(ws))

\* What reading and parsing one file of the workspace contributes.
ModulesOfFile(ws, uri) == SelectSeq(ws[1], LAMBDA m : m.uri = uri)

\* The orders in which the elements of a sequence can be listed.
Orders(s) ==
    {p \in [1..Len(s) -> Range(s)] : \A i, j \in 1..Len(s) : i # j => p[i] # p[j]}

FreshTimer(st) == CHOOSE id \in 1..(Cardinality(st.armed) + 2) :
                      /\ id \notin st.armed \cup {st.refreshTimer}
                      /\ \A k \in 1..(id - 1) : k \in st.armed \cup {st.refreshTimer}

\* A variant that leaves the previous timer armed.
scheduleFullRefresh_NoClear(st) ==
    [st EXCEPT !.armed = @ \cup {FreshTimer(st)}, !.refreshTimer = FreshTimer(st),
               !.burst = @ + 1]

\* if (refreshTimer) clearTimeout(refreshTimer); refreshTimer = setTimeout(..., 300)
scheduleFullRefresh(st) ==
    [st EXCEPT !.armed = (@ \ {st.refreshTimer}) \cup {FreshTimer(st)},
               !.refreshTimer = FreshTimer(st),
               !.burst = @ + 1]

\* The state of activate() before its last statement.
RfStart(ws, skip) ==
    [workspace          |-> ws,
     skipHierarchyBuild |-> skip,
     refreshTimer       |-> 0,        \* the handle of the last timer set; 0: undefined
     armed              |-> {},       \* the timers that are set and have not fired
     refreshInProgress  |-> FALSE,
     refreshPending     |-> FALSE,
     at                 |-> "idle",   \* the await the running fullRefresh is suspended at
     files              |-> <<>>,     \* files, then filteredFiles, of the running scan
     i                  |-> 0,        \* files parseFiles has read
     modules            |-> <<>>,     \* the local array of parseFiles
     heap               |-> <<>>,     \* the designs parseFiles has returned
     currentDesign      |-> 0,        \* a reference into heap; 0: null
     hierarchyDesign    |-> 0,        \* the design hierarchyProvider.update was given
     projectDesign      |-> 0,        \* the design projectTreeProvider.update was given
     held               |-> 0,        \* the design a command handler read and still uses
     requests           |-> 0,        \* the requests made so far
     burst              |-> 0,        \* scheduleFullRefresh calls since a timer last fired
     unserved           |-> 0,        \* requests made since the last scan started
     calls              |-> 0]        \* fullRefresh calls so far

\* activate() ends with scheduleFullRefresh().
InitRefresh ==
    /\ \E ws \in Workspaces : \E skip \in BOOLEAN :
           rf = [scheduleFullRefresh(RfStart(ws, skip)) EXCEPT !.unserved = 1]
    /\ OnlyRefresh

\* A refresh command or a file watcher event: the files may have changed.
RfRequest ==
    /\ rf.requests < MaxRequests
    /\ \E ws \in Workspaces :
           rf' = [scheduleFullRefresh(rf) EXCEPT !.workspace = ws,
                                                 !.requests = @ + 1,
                                                 !.unserved = @ + 1]
    /\ UNCHANGED othersRefresh

\* A handler reads currentDesign: showModulePorts, the definition provider.
RfReader ==
    /\ rf.held # rf.currentDesign
    /\ rf' = [rf EXCEPT !.held = rf.currentDesign]
    /\ UNCHANGED othersRefresh

\* A variant that does not note a call made during a scan.
fullRefresh_ForgetsPending(st) ==
    IF st.refreshInProgress
    THEN [st EXCEPT !.calls = @ + 1]
    ELSE IF st.workspace = NoFolder
    THEN [st EXCEPT !.currentDesign = 0, !.projectDesign = 0, !.hierarchyDesign = 0,
                    !.refreshInProgress = FALSE, !.unserved = 0, !.calls = @ + 1]
    ELSE [st EXCEPT !.refreshInProgress = TRUE, !.at = "loadFilelist",
                    !.unserved = 0, !.calls = @ + 1]

\* A variant without the test of refreshInProgress: every call starts a scan.
fullRefresh_Unguarded(st) ==
    IF st.workspace = NoFolder
    THEN [st EXCEPT !.currentDesign = 0, !.projectDesign = 0, !.hierarchyDesign = 0,
                    !.refreshInProgress = FALSE, !.unserved = 0, !.calls = @ + 1]
    ELSE [st EXCEPT !.refreshInProgress = TRUE, !.at = "loadFilelist",
                    !.unserved = 0, !.calls = @ + 1]

\* fullRefresh up to its first await.
fullRefresh(st) ==
    IF st.refreshInProgress
    THEN [st EXCEPT !.refreshPending = TRUE, !.calls = @ + 1]
    ELSE IF st.workspace = NoFolder
    THEN [st EXCEPT !.currentDesign = 0, !.projectDesign = 0, !.hierarchyDesign = 0,
                    !.refreshInProgress = FALSE, !.unserved = 0, !.calls = @ + 1]
    ELSE [st EXCEPT !.refreshInProgress = TRUE, !.at = "loadFilelist",
                    !.unserved = 0, !.calls = @ + 1]

\* The timer fires: fullRefresh().catch(...).
RfTimer ==
    /\ \E id \in rf.armed :
           rf' = fullRefresh([rf EXCEPT !.armed = @ \ {id}, !.burst = 0])
    /\ UNCHANGED othersRefresh

\* loadFilelist() resolves, without a filelist: findFiles is called.
RfLoadFilelist ==
    /\ rf.at = "loadFilelist"
    /\ rf' = [rf EXCEPT !.at = "findFiles"]
    /\ UNCHANGED othersRefresh

\* findFiles resolves with the files that exist now: filterFilesBySize is called.
RfFindFiles ==
    /\ rf.at = "findFiles"
    /\ rf' = [rf EXCEPT !.at = "filterFilesBySize", !.files = WorkspaceFiles(rf.workspace)]
    /\ UNCHANGED othersRefresh

\* findFiles rejects: fullRefresh rejects, and the timer callback logs the error.
RfFindFilesRejects ==
    /\ rf.at = "findFiles"
    /\ rf' = [rf EXCEPT !.at = "idle"]
    /\ UNCHANGED othersRefresh

\* filterFilesBySize resolves with the files whose stat succeeded, in the order the
\* stats completed; parseFiles is called and runs to its first read.
RfFilterFiles ==
    /\ rf.at = "filterFilesBySize"
    /\ \E order \in Orders(SelectSeq(rf.files, LAMBDA u : FileExists(rf.workspace, u))) :
           rf' = [rf EXCEPT !.at = "readFile", !.files = order, !.i = 0, !.modules = <<>>]
    /\ UNCHANGED othersRefresh

\* A variant that publishes the design after every file.
PushModules_Published(st, mods) ==
    [st EXCEPT !.modules = @ \o mods, !.i = @ + 1,
               !.heap = Append(@, BuildIndex(st.modules \o mods)),
               !.currentDesign = Len(st.heap) + 1]

\* modules.push(...modsInFile)
PushModules(st, mods) == [st EXCEPT !.modules = @ \o mods, !.i = @ + 1]

\* One iteration of the file loop of parseFiles: a failed read is logged and skipped.
RfReadFile ==
    /\ rf.at = "readFile"
    /\ rf.i < Len(rf.files)
    /\ LET uri == rf.files[rf.i + 1]
       IN rf' = PushModules(rf, IF FileExists(rf.workspace, uri)
                                THEN ModulesOfFile(rf.workspace, uri) ELSE <<>>)
    /\ UNCHANGED othersRefresh

\* parseFiles builds the index and returns; fullRefresh publishes the design, updates
\* both trees, and schedules the pending refresh.
RfPublish ==
    /\ rf.at = "readFile"
    /\ rf.i = Len(rf.files)
    /\ LET design == Len(rf.heap) + 1
           done   == [rf EXCEPT !.heap = Append(@, BuildIndex(rf.modules)),
                                !.currentDesign = design,
                                !.projectDesign = design,
                                !.hierarchyDesign = IF rf.skipHierarchyBuild THEN 0 ELSE design,
                                !.refreshInProgress = FALSE,
                                !.at = "idle"]
       IN rf' = IF rf.refreshPending
                THEN scheduleFullRefresh([done EXCEPT !.refreshPending = FALSE])
                ELSE done
    /\ UNCHANGED othersRefresh

NextRefresh ==
    \/ RfRequest
    \/ RfReader
    \/ RfTimer
    \/ RfLoadFilelist
    \/ RfFindFiles
    \/ RfFindFilesRejects
    \/ RfFilterFiles
    \/ RfReadFile
    \/ RfPublish

SpecRefresh == InitRefresh /\ [][NextRefresh]_vars

\* The same with the timers firing and the file operations of a scan completing: a
\* timer that is set fires, and an operation a scan awaits returns or rejects.
SpecRefreshLive ==
    /\ SpecRefresh
    /\ WF_vars(RfTimer)
    /\ WF_vars(RfLoadFilelist)
    /\ WF_vars(RfFindFiles)
    /\ WF_vars(RfFilterFiles)
    /\ WF_vars(RfReadFile)
    /\ WF_vars(RfPublish)

(***************************************************************************)
(* The endpoint commands of activate(): Select Endpoint A / B and Show     *)
(* Direct Connections, with the content of the DirectConnectionsProvider.  *)
(***************************************************************************)
\* The designs currentDesign may hold: none yet, or modules p and q with instances
\* ua and ub bound to the shared clock (q with both or with ua only).
ClockedInsts(names) ==
    [j \in 1..Len(names) |-> NamedInst(names[j], "a", << <<"clk", SysClk>> >>)]

SelShapes ==
    { << [name |-> "p", insts |-> ClockedInsts(<<"ua", "ub">>)],
         [name |-> "q", insts |-> ClockedInsts(qs)] >> : qs \in {<<"ua", "ub">>, <<"ua">>} }

SelDesigns == {Null} \cup {Some(MkDesign(s)) : s \in SelShapes}

\* The hierarchy nodes a command can be invoked on: the instance nodes, and a root,
\* which has no instance name and no parent module.
SelItems ==
    [instanceName : {"ua", "ub"}, parentModuleName : {"p", "q"}]
    \cup {[instanceName |-> UNDEF, parentModuleName |-> UNDEF]}

\* new ConnectionNode(c.label, c.location)
ConnectionNode(c) == [label |-> c.label, location |-> c.location]

\* DirectConnectionsProvider.update(connections)
ProviderUpdate(st, connections) ==
    [st EXCEPT !.data = [k \in 1..Len(connections) |-> ConnectionNode(connections[k])]]

\* The connections of the two endpoints in the design held.
EndpointConnections(st) ==
    findDirectConnections(st.currentDesign[1], st.endpointA[1].parentModule,
                          st.endpointA[1].instance, st.endpointB[1].instance)

updateDirectConnections(st) ==
    IF st.endpointA = Null \/ st.endpointB = Null THEN st
    ELSE IF st.endpointA[1].parentModule # st.endpointB[1].parentModule THEN st
    ELSE IF st.currentDesign = Null THEN st
    ELSE ProviderUpdate(st, EndpointConnections(st))

setEndpoint(st, item, slot) ==
    IF item.instanceName = UNDEF \/ item.parentModuleName = UNDEF THEN st
    ELSE LET data == Some([parentModule |-> item.parentModuleName,
                           instance     |-> item.instanceName])
         IN updateDirectConnections(IF slot = "A" THEN [st EXCEPT !.endpointA = data]
                                    ELSE [st EXCEPT !.endpointB = data])

\* The handler of vetree-verilog.showDirectConnections.
showDirectConnectionsCmd(st) ==
    IF st.endpointA = Null \/ st.endpointB = Null THEN st
    ELSE IF st.endpointA[1].parentModule # st.endpointB[1].parentModule THEN st
    ELSE IF st.currentDesign = Null THEN st
    ELSE IF Len(EndpointConnections(st)) = 0 THEN ProviderUpdate(st, <<>>)
    ELSE ProviderUpdate(st, EndpointConnections(st))

\* activate(): no design indexed yet, no endpoint selected, an empty view.
InitSelect ==
    /\ sel = [currentDesign |-> Null, endpointA |-> Null, endpointB |-> Null, data |-> <<>>]
    /\ OnlySelect

\* fullRefresh replaces currentDesign: by the parsed design, or by null when the
\* workspace has no folder.  It leaves the endpoints and the view alone.
SelPublish ==
    /\ \E design \in SelDesigns : sel' = [sel EXCEPT !.currentDesign = design]
    /\ UNCHANGED othersSelect

\* Select Endpoint A / Select Endpoint B on a node of the hierarchy view.
SelSelectEndpoint ==
    /\ \E item \in SelItems : \E slot \in {"A", "B"} : sel' = setEndpoint(sel, item, slot)
    /\ UNCHANGED othersSelect

\* Show Direct Connections.
SelShowConnections ==
    /\ sel' = showDirectConnectionsCmd(sel)
    /\ UNCHANGED othersSelect

NextSelect == SelPublish \/ SelSelectEndpoint \/ SelShowConnections

SpecSelect == InitSelect /\ [][NextSelect]_vars


(***************************************************************************)
(* offsetToPosition with the line-start memo of types.ts: cachedText and   *)
(* cachedLineStarts are module variables that outlive a call, so a         *)
(* behaviour is a sequence of conversions on texts of any kind.            *)
(***************************************************************************)
MaxText == 4        \* characters of a text handed to offsetToPosition

\* The texts converted: letters and newlines, so up to MaxText + 1 lines.
MemoTexts == SeqsUpTo({"a", "\n"}, MaxText)

\* A variant whose memo compares the length of the text only.
getLineStartsCached_ByLength(m, text) ==
    IF m.cachedText # Null /\ Len(text) = Len(m.cachedText[1])
    THEN [starts |-> m.cachedLineStarts, cachedText |-> m.cachedText,
          cachedLineStarts |-> m.cachedLineStarts]
    ELSE [starts |-> getLineStarts(text), cachedText |-> Some(text),
          cachedLineStarts |-> getLineStarts(text)]

\* getLineStarts with its memo: the table returned and the memo it leaves.
getLineStartsCached(m, text) ==
    IF Some(text) = m.cachedText
    THEN [starts |-> m.cachedLineStarts, cachedText |-> m.cachedText,
          cachedLineStarts |-> m.cachedLineStarts]
    ELSE [starts |-> getLineStarts(text), cachedText |-> Some(text),
          cachedLineStarts |-> getLineStarts(text)]

\* offsetToPosition(text, offset) of types.ts on the memo m: the position returned,
\* the memo left, and how the table was obtained.
offsetToPositionCached(m, text, offset) ==
    LET got == getLineStartsCached(m, text)
    IN [cachedText       |-> got.cachedText,
        cachedLineStarts |-> got.cachedLineStarts,
        text             |-> Some(text),
        offset           |-> offset,
        served           |-> IF m.cachedText = Null THEN "first"
                             ELSE IF m.cachedText = Some(text) THEN "cached"
                             ELSE "replaced",
        result           |-> Some(SearchLine(got.starts, offset, 0, Len(got.starts) - 1))]

\* The loop of the linear offsetToPosition, at index i.
RECURSIVE LinearScan(_, _, _, _, _)
LinearScan(text, offset, i, line, lastLineStart) ==
    IF i < offset /\ i < Len(text)
    THEN IF text[i + 1] = "\n"
         THEN LinearScan(text, offset, i + 1, line + 1, i + 1)
         ELSE LinearScan(text, offset, i + 1, line, lastLineStart)
    ELSE Position(line, offset - lastLineStart)

\* offsetToPosition(text, offset) of tsRegexBackend.ts, the linear scan.
offsetToPositionLinear(text, offset) == LinearScan(text, offset, 0, 0, 0)

\* Module load: cachedText = null, cachedLineStarts = [], no conversion made.
InitMemo ==
    /\ memo = [cachedText |-> Null, cachedLineStarts |-> <<>>, text |-> Null, offset |-> 0,
               served |-> "none", result |-> Null]
    /\ OnlyMemo

\* One conversion, on any text and any offset in it.
MemoConvert ==
    /\ \E text \in MemoTexts : \E offset \in 0..Len(text) :
           memo' = offsetToPositionCached(memo, text, offset)
    /\ UNCHANGED othersMemo

NextMemo == MemoConvert

SpecMemo == InitMemo /\ [][NextMemo]_vars


(***************************************************************************)
(* All components together: one of them is exercised in a behaviour.       *)
(***************************************************************************)
Init ==
    InitHier \/ InitConn \/ InitSan \/ InitPre \/ InitEx \/ InitFiles \/ InitRefresh \/ InitSelect
    \/ InitMemo

Next ==
    NextHier \/ NextConn \/ NextSan \/ NextPre \/ NextEx \/ NextFiles \/ NextRefresh \/ NextSelect
    \/ NextMemo

Spec == Init /\ [][Next]_vars

(***************************************************************************)
(* Properties of the hierarchy builder                                     *)
(***************************************************************************)
\* The forest as the tree view walks it: (node, depth) from the shown roots down the
\* children lists.
RECURSIVE Walk(_, _, _)
Walk(heap, ids, depth) ==
    UNION { {<<ids[i], depth>>} \cup Walk(heap, heap[ids[i]].children, depth + 1) :
            i \in 1..Len(ids) }

Forest(self) == Walk(self.heap, ShownRoots(self), 0)

ForestNodes(self) == {p[1] : p \in Forest(self)}

\* The proper ancestors of a node, along the parent links.
RECURSIVE Ancestors(_, _)
Ancestors(heap, id) ==
    IF heap[id].parent = 0 THEN {}
    ELSE {heap[id].parent} \cup Ancestors(heap, heap[id].parent)

Modules(self) == self.design[1].modules

Instantiates(self, parentName, typeName) ==
    \E i \in 1..Len(Modules(self)) :
        /\ Modules(self)[i].name = parentName
        /\ \E j \in 1..Len(Modules(self)[i].instances) :
               Modules(self)[i].instances[j].moduleName = typeName

TopMidCycle(self) ==
    /\ self.design # Null
    /\ Instantiates(self, "top", "mid")
    /\ Instantiates(self, "mid", "top")

\* A node for top made by the cycle branch, without children, below a node for mid.
CycleNodeAtTop(self, id) ==
    /\ self.heap[id].moduleName = "top"
    /\ self.heap[id].via = "cycle"
    /\ self.heap[id].children = <<>>
    /\ self.heap[id].parent # 0
    /\ self.heap[self.heap[id].parent].moduleName = "mid"

DefinedNames(self) == {Modules(self)[i].name : i \in 1..Len(Modules(self))}

\* The nodes on the path from a root down to the node.
PathTo(heap, id) == Ancestors(heap, id) \cup {id}

\* C16: a build ends for every design of the family (self-instantiation, longer
\* cycles, unresolved type names and duplicate definitions included) and every
\* maxDepth: the forest it leaves is finite and holds every node made; on each path
\* from a root only expanded nodes have children, the expanded nodes carry defined
\* names that differ from one another, so that the path has at most one node more
\* than there are defined names; without a design the forest is empty.
C16_BuildTerminates ==
    /\ hier.design = Null
           => /\ hier.roots = <<>>
              /\ hier.rootNodes = <<>>
              /\ ShownRoots(hier) = <<>>
              /\ Forest(hier) = {}
    /\ hier.design # Null
           => /\ ForestNodes(hier) = 1..Len(hier.heap)
              /\ hier.stats.nodeCount = Len(hier.heap)
              /\ \A id \in 1..Len(hier.heap) :
                     LET path == PathTo(hier.heap, id)
                     IN /\ hier.heap[id].children # <<>> => hier.heap[id].via = "module"
                        /\ hier.heap[id].via = "module"
                               => hier.heap[id].moduleName \in DefinedNames(hier)
                        /\ \A m \in path : \A n \in path :
                               (/\ m # n
                                /\ hier.heap[m].via = "module"
                                /\ hier.heap[n].via = "module")
                                   => hier.heap[m].moduleName # hier.heap[n].moduleName
                        /\ Cardinality(path) <= Cardinality(DefinedNames(hier)) + 1

\* C16 witness: a design with a cycle, built without a depth limit in the way, whose
\* forest holds a cycle node at the end of a path as long as the bound allows: every
\* defined name expanded once, then the cycle node.
C16_Witness ==
    /\ hier.design # Null
    /\ hier.maxDepth = DefaultMaxDepth
    /\ Cardinality(DefinedNames(hier)) >= 2
    /\ \E id \in 1..Len(hier.heap) :
           /\ hier.heap[id].via = "cycle"
           /\ Cardinality(PathTo(hier.heap, id)) = Cardinality(DefinedNames(hier)) + 1

ChainABCD(self) ==
    /\ self.design # Null
    /\ Len(Modules(self)) = 4
    /\ \A k \in 1..4 :
           /\ Modules(self)[k].name = NameList[k]
           /\ Len(Modules(self)[k].instances) = (IF k < 4 THEN 1 ELSE 0)
           /\ k < 4 => Modules(self)[k].instances[1].moduleName = NameList[k + 1]

\* C6: no node of the built forest lies deeper than maxDepth, a node at depth maxDepth
\* has no children, and for the chain a -> b -> c -> d with maxDepth 2 the node for c
\* is a depth-limit terminal and d does not appear.
C6_DepthBounded ==
    /\ \A p \in Forest(hier) :
           /\ p[2] <= hier.maxDepth
           /\ p[2] = hier.maxDepth => hier.heap[p[1]].children = <<>>
    /\ (ChainABCD(hier) /\ hier.maxDepth = 2 /\ hier.topModule = UNDEF)
           => /\ \E p \in Forest(hier) :
                     /\ hier.heap[p[1]].moduleName = "c"
                     /\ hier.heap[p[1]].via = "depth-limit"
                     /\ hier.heap[p[1]].children = <<>>
                     /\ p[2] = 2
              /\ \A id \in 1..Len(hier.heap) : hier.heap[id].moduleName # "d"
              /\ \A p \in Forest(hier) :
                     hier.heap[p[1]].moduleName = "c" => hier.heap[p[1]].via = "depth-limit"

C6_Witness ==
    /\ ChainABCD(hier)
    /\ hier.maxDepth = 2
    /\ \E p \in Forest(hier) : hier.heap[p[1]].moduleName = "c" /\ p[2] = 2

\* The defined names that no instance in any module has as its type.
UninstantiatedNames(self) ==
    {Modules(self)[i].name : i \in 1..Len(Modules(self))} \
    UNION { {Modules(self)[i].instances[j].moduleName :
                 j \in 1..Len(Modules(self)[i].instances)} :
            i \in 1..Len(Modules(self)) }

\* C7: after every build the roots are exactly the defined names that no instance of
\* any module (itself included) has as its type, each once, in ascending order; and a
\* build on the design already held leaves the roots as they were.
C7_RootsExact ==
    [][/\ hier'.design # Null =>
              /\ Range(hier'.roots) = UninstantiatedNames(hier')
              /\ \A i, j \in 1..Len(hier'.roots) :
                     i < j => LessStr(hier'.roots[i], hier'.roots[j])
       /\ hier'.design = Null => hier'.roots = <<>>
       /\ hier'.design = hier.design => hier'.roots = hier.roots]_vars

\* C7 witness: two roots defined in descending order, one of them twice, beside a
\* module that instantiates itself.
C7_Witness ==
    /\ hier.design # Null
    /\ Len(hier.roots) >= 2
    /\ \E i, j \in 1..Len(Modules(hier)) :
           /\ i < j
           /\ LessStr(Modules(hier)[j].name, Modules(hier)[i].name)
           /\ Has(hier.roots, Modules(hier)[i].name)
           /\ Has(hier.roots, Modules(hier)[j].name)

\* The children of node id made for the instance at location loc, in order.
ChildrenFor(self, id, loc) ==
    SelectSeq(self.heap[id].children, LAMBDA c : self.heap[c].instanceLocation = loc)

\* C8: under an expanded node, an instance whose type has no definition has exactly one
\* child, an external terminal; with 'first' an instance of a defined type has exactly
\* one child; with 'all' it has one child per definition of the type, in discovery
\* order.
C8_ChildrenPerInstance ==
    hier.design # Null =>
        \A id \in ForestNodes(hier) :
            hier.heap[id].via = "module" =>
                LET insts == FlatInstances(MapGet(hier.design[1].modulesByName,
                                                  hier.heap[id].moduleName))
                IN /\ \A c \in Range(hier.heap[id].children) :
                          \E j \in 1..Len(insts) :
                              hier.heap[c].instanceLocation = insts[j].location
                   /\ \A j \in 1..Len(insts) :
                          LET defs == SelectSeq(Modules(hier),
                                                LAMBDA m : m.name = insts[j].moduleName)
                              kids == ChildrenFor(hier, id, insts[j].location)
                          IN /\ Len(defs) = 0 =>
                                    /\ Len(kids) = 1
                                    /\ hier.heap[kids[1]].via = "external"
                                    /\ hier.heap[kids[1]].children = <<>>
                                    /\ hier.heap[kids[1]].moduleName = insts[j].moduleName
                             /\ (Len(defs) >= 1 /\ hier.resolveStrategy = "first") =>
                                    /\ Len(kids) = 1
                                    /\ hier.heap[kids[1]].moduleName = insts[j].moduleName
                                    /\ hier.heap[kids[1]].via # "external"
                                    /\ hier.heap[kids[1]].definitionLocation
                                           \in {NoLoc, DefLocation(defs[1])}
                             /\ (Len(defs) >= 1 /\ hier.resolveStrategy = "all") =>
                                    /\ Len(kids) = Len(defs)
                                    /\ \A k \in 1..Len(kids) :
                                           /\ hier.heap[kids[k]].moduleName = insts[j].moduleName
                                           /\ hier.heap[kids[k]].via # "external"
                                           /\ hier.heap[kids[k]].definitionLocation
                                                  \in {NoLoc, DefLocation(defs[k])}

\* C8 witness: an expanded node with an instance of a type defined twice, expanded
\* into two children under 'all', beside an instance of an undefined type.
C8_Witness ==
    /\ hier.design # Null
    /\ hier.resolveStrategy = "all"
    /\ \E id \in ForestNodes(hier) :
           /\ hier.heap[id].via = "module"
           /\ \E c1, c2 \in Range(hier.heap[id].children) :
                  /\ c1 # c2
                  /\ hier.heap[c1].instanceLocation = hier.heap[c2].instanceLocation
                  /\ hier.heap[c1].definitionLocation # hier.heap[c2].definitionLocation
                  /\ hier.heap[c1].via = "module"
                  /\ hier.heap[c2].via = "module"
           /\ \E c \in Range(hier.heap[id].children) : hier.heap[c].via = "external"

\* The module names of the roots of the built forest, in order.
RootNames(self) ==
    [i \in 1..Len(ShownRoots(self)) |-> self.heap[ShownRoots(self)[i]].moduleName]

\* C17: with a top module T configured the built forest has no root other than T:
\* exactly one root, named T, when T is in the computed root set (the defined names no
\* instance has as its type), and none otherwise; with no top module configured the
\* roots are the whole computed root set.
C17_TopModuleRestrictsRoots ==
    hier.design # Null =>
        /\ Range(hier.roots) = UninstantiatedNames(hier)
        /\ \A i \in 1..Len(ShownRoots(hier)) : hier.heap[ShownRoots(hier)[i]].parent = 0
        /\ IF hier.topModule # UNDEF
           THEN RootNames(hier) = (IF hier.topModule \in UninstantiatedNames(hier)
                                   THEN <<hier.topModule>> ELSE <<>>)
           ELSE RootNames(hier) = hier.roots

\* C17 witness: a design with two roots built with one of them configured as the top
\* module: the forest has that root alone.
C17_Witness ==
    /\ hier.design # Null
    /\ hier.topModule # UNDEF
    /\ Len(hier.roots) >= 2
    /\ Has(hier.roots, hier.topModule)
    /\ RootNames(hier) = <<hier.topModule>>

\* The proper ancestors of the node that carry its module name.
SameNameAncestors(self, id) ==
    {n \in Ancestors(self.heap, id) : self.heap[n].moduleName = self.heap[id].moduleName}

\* Two nodes of which neither is an ancestor of the other.
Independent(self, m, n) ==
    /\ m # n
    /\ m \notin Ancestors(self.heap, n)
    /\ n \notin Ancestors(self.heap, m)

\* The module names of the children of a node, in order.
ChildNames(self, id) ==
    [k \in 1..Len(self.heap[id].children) |-> self.heap[self.heap[id].children[k]].moduleName]

\* C31: cycle detection is local to the path: a node above the depth limit is a cycle
\* terminal exactly when one of its own ancestors carries its module name, and then it
\* has no children; two nodes for one module in different branches, neither with an
\* ancestor of that name, are both expanded, with the same children.
C31_CyclePathLocal ==
    hier.design # Null =>
        /\ \A p \in Forest(hier) :
               p[2] < hier.maxDepth =>
                   /\ hier.heap[p[1]].via = "cycle" <=> SameNameAncestors(hier, p[1]) # {}
                   /\ hier.heap[p[1]].via = "cycle" => hier.heap[p[1]].children = <<>>
        /\ \A p, q \in Forest(hier) :
               (/\ Independent(hier, p[1], q[1])
                /\ hier.heap[p[1]].moduleName = hier.heap[q[1]].moduleName
                /\ hier.heap[p[1]].via # "external"
                /\ p[2] < hier.maxDepth /\ q[2] < hier.maxDepth
                /\ SameNameAncestors(hier, p[1]) = {} /\ SameNameAncestors(hier, q[1]) = {})
                   => /\ hier.heap[p[1]].via = "module"
                      /\ hier.heap[q[1]].via = "module"
                      /\ ChildNames(hier, p[1]) = ChildNames(hier, q[1])

\* C31 witness: a module with an instance of its own is expanded in two branches of
\* one tree, and a cycle terminal stands below a node of its own name.
C31_Witness ==
    /\ hier.design # Null
    /\ \E p, q \in Forest(hier) :
           /\ Independent(hier, p[1], q[1])
           /\ hier.heap[p[1]].moduleName = hier.heap[q[1]].moduleName
           /\ hier.heap[p[1]].via = "module" /\ hier.heap[q[1]].via = "module"
           /\ hier.heap[p[1]].children # <<>>
           /\ hier.heap[p[1]].parent # 0 /\ hier.heap[q[1]].parent # 0
    /\ \E id \in ForestNodes(hier) :
           hier.heap[id].via = "cycle" /\ SameNameAncestors(hier, id) # {}

\* The last piece of the label of a node.
LabelSuffix(self, id) == self.heap[id].label[Len(self.heap[id].label)]

\* The suffix the branch that made a terminal node gives its label.
MarkerOf(via) ==
    CASE via = "cycle"       -> " (cycle)"
      [] via = "depth-limit" -> " (depth limit)"
      [] via = "external"    -> " (external)"

Terminals == {"cycle", "depth-limit", "external"}

\* The terminal node carries the marker of its kind.
Marked(self, id) == LabelSuffix(self, id) = MarkerOf(self.heap[id].via)

\* C32: in the finished forest the label of every node made by the cycle branch ends
\* in (cycle), of every node made by the depth-limit branch in (depth limit) and of
\* every external node in (external); no expanded module node carries such a suffix.
C32_TerminalsMarked ==
    hier.design # Null =>
        \A id \in ForestNodes(hier) :
            IF hier.heap[id].via \in Terminals THEN Marked(hier, id)
            ELSE LabelSuffix(hier, id) \notin {MarkerOf(v) : v \in Terminals}

\* The part of C32 the code keeps: external nodes and terminals that are roots carry
\* their marker, and no expanded module node carries one.
C32_RootsAndExternalsMarked ==
    hier.design # Null =>
        \A id \in ForestNodes(hier) :
            IF hier.heap[id].via \in Terminals
            THEN (hier.heap[id].via = "external" \/ hier.heap[id].parent = 0) => Marked(hier, id)
            ELSE LabelSuffix(hier, id) \notin {MarkerOf(v) : v \in Terminals}

\* A depth-limit terminal at a root and an external node have been built.
C32_MarkedWitness ==
    /\ hier.design # Null
    /\ \E id \in ForestNodes(hier) :
           hier.heap[id].via = "depth-limit" /\ hier.heap[id].parent = 0

\* The greatest number of a finite set of naturals, 0 for the empty set.
Greatest(S) == IF S = {} THEN 0 ELSE CHOOSE k \in S : \A h \in S : k >= h

\* The nodes of the forest made by one branch.
MadeBy(self, via) == {id \in ForestNodes(self) : self.heap[id].via = via}

\* The depths of the nodes of the forest, external nodes included or not.
DepthsSeen(self, withExternal) ==
    {p[2] : p \in {q \in Forest(self) : withExternal \/ self.heap[q[1]].via # "external"}}

\* The three counters of the statistics agree with the forest.
CountersAgree ==
    /\ hier.stats.nodeCount = Cardinality(ForestNodes(hier))
    /\ hier.stats.cycleHits = Cardinality(MadeBy(hier, "cycle"))
    /\ hier.stats.depthLimitHits = Cardinality(MadeBy(hier, "depth-limit"))

\* C33: after every build, a rebuild included, the statistics describe the forest of
\* that build: nodeCount is its number of nodes, cycleHits its number of cycle
\* terminals, depthLimitHits its number of depth-limit terminals and maxDepthSeen the
\* greatest depth of any of its nodes.
C33_StatsDescribeBuild ==
    /\ CountersAgree
    /\ hier.stats.maxDepthSeen = Greatest(DepthsSeen(hier, TRUE))

\* The part of C33 the code keeps: the counters agree, and maxDepthSeen is the greatest
\* depth of a node that is not external.
C33_StatsDescribeBuildBesideExternals ==
    /\ CountersAgree
    /\ hier.stats.maxDepthSeen = Greatest(DepthsSeen(hier, FALSE))

\* A forest with a terminal of the cycle or the depth-limit branch below the first
\* level, beside an external node, has been built.
C33_CountedWitness ==
    /\ hier.design # Null
    /\ hier.stats.cycleHits + hier.stats.depthLimitHits >= 1
    /\ MadeBy(hier, "external") # {}
    /\ hier.stats.maxDepthSeen >= 2

\* getParent(element): element.parent, 0 standing for undefined.
getParent(self, id) == self.heap[id].parent

\* C39: in every finished forest the parent and child links agree: each child of a
\* node, whatever branch made it, has that node as its parent, each root has none,
\* and a node with a parent is among the children of that parent.
C39_ParentLinksAgree ==
    /\ \A n \in ForestNodes(hier) :
           \A k \in 1..Len(hier.heap[n].children) :
               getParent(hier, hier.heap[n].children[k]) = n
    /\ \A i \in 1..Len(ShownRoots(hier)) : getParent(hier, ShownRoots(hier)[i]) = 0
    /\ \A c \in ForestNodes(hier) :
           getParent(hier, c) # 0 => Has(hier.heap[getParent(hier, c)].children, c)

\* C39 witness: a forest whose nodes below the roots include an expanded module, an
\* external node and a cycle terminal.
C39_Witness ==
    /\ hier.design # Null
    /\ \A via \in {"module", "external", "cycle"} :
           \E c \in ForestNodes(hier) : hier.heap[c].via = via /\ getParent(hier, c) # 0

(***************************************************************************)
(* Properties of the connection analyzer                                   *)
(***************************************************************************)
\* The text with every white-space character removed.
RECURSIVE StripSpaces(_)
StripSpaces(t) ==
    IF t = <<>> THEN <<>>
    ELSE IF Head(t) \in {" ", "\t", "\n", "\r"} THEN StripSpaces(Tail(t))
    ELSE <<Head(t)>> \o StripSpaces(Tail(t))

\* The modules of the design that bear the parent name, in discovery order.
ParentDefs == SelectSeq(connIn.design.modules, LAMBDA m : m.name = connIn.parentModule)

HasInstance(m, n) == \E i \in 1..Len(m.instances) : m.instances[i].instanceName = n

FirstInstance(m, n) ==
    m.instances[CHOOSE i \in 1..Len(m.instances) :
                   /\ m.instances[i].instanceName = n
                   /\ \A j \in 1..(i - 1) : m.instances[j].instanceName # n]

HoldsBoth(m) == HasInstance(m, connIn.instanceA) /\ HasInstance(m, connIn.instanceB)

\* The first definition with the parent name that holds both instances.
FoundTogether == \E k \in 1..Len(ParentDefs) : HoldsBoth(ParentDefs[k])

SharedParent ==
    ParentDefs[CHOOSE k \in 1..Len(ParentDefs) :
                  /\ HoldsBoth(ParentDefs[k])
                  /\ \A j \in 1..(k - 1) : ~ HoldsBoth(ParentDefs[j])]

EndA == FirstInstance(SharedParent, connIn.instanceA)

EndB == FirstInstance(SharedParent, connIn.instanceB)

\* Binding i of A and binding j of B carry the same non-empty net.
SameNet(i, j) ==
    /\ StripSpaces(EndA.bindings[i].expr) = StripSpaces(EndB.bindings[j].expr)
    /\ StripSpaces(EndA.bindings[i].expr) # <<>>

NetPairs ==
    {p \in (1..Len(EndA.bindings)) \X (1..Len(EndB.bindings)) : SameNet(p[1], p[2])}

MatchOf(p) ==
    [label    |-> <<EndA.instanceName, ".", EndA.bindings[p[1]].portName, " - ",
                    EndB.instanceName, ".", EndB.bindings[p[2]].portName>>,
     location |-> EndA.bindings[p[1]].location]

Occurrences(list, e) == Cardinality({n \in 1..Len(list) : list[n] = e})

\* C9: for two instances found in one module the result holds exactly one match per
\* pair of a binding of A and a binding of B whose expressions are equal without white
\* space and not empty (m ports times n ports for a shared net), and two instances both
\* bound to .clk(sysclk) are matched on it.
C9_OneMatchPerPair ==
    (connOut.called /\ FoundTogether) =>
        /\ Len(connOut.result) = Cardinality(NetPairs)
        /\ \A n \in 1..Len(connOut.result) : \E p \in NetPairs : connOut.result[n] = MatchOf(p)
        /\ \A p \in NetPairs :
               Occurrences(connOut.result, MatchOf(p))
                   = Cardinality({q \in NetPairs : MatchOf(q) = MatchOf(p)})
        /\ \A i \in 1..Len(EndA.bindings), j \in 1..Len(EndB.bindings) :
               (/\ EndA.bindings[i].portName = "clk" /\ EndA.bindings[i].expr = SysClk
                /\ EndB.bindings[j].portName = "clk" /\ EndB.bindings[j].expr = SysClk)
               => \E n \in 1..Len(connOut.result) :
                      /\ connOut.result[n].location = EndA.bindings[i].location
                      /\ connOut.result[n].label[3] = "clk"
                      /\ connOut.result[n].label[7] = "clk"

\* C9 witness: a net bound to two ports of A and two ports of B gives four matches,
\* among them the clock pair.
C9_Witness ==
    /\ connOut.called
    /\ FoundTogether
    /\ EndA # EndB
    /\ Len(connOut.result) = 4
    /\ \A i \in 1..Len(EndA.bindings) : EndA.bindings[i].expr = SysClk
    /\ \E n \in 1..Len(connOut.result) :
           connOut.result[n].label[3] = "clk" /\ connOut.result[n].label[7] = "clk"

\* C10: the result is empty when no module with the parent name holds both instances
\* (one of them absent, or each in another definition) and when the two instances
\* share no net; every match pairs a binding of A with a binding of B taken from the
\* first definition with the parent name that holds both.
C10_EmptyOrSameModule ==
    connOut.called =>
        /\ ~ FoundTogether => connOut.result = <<>>
        /\ (FoundTogether /\ NetPairs = {}) => connOut.result = <<>>
        /\ \A n \in 1..Len(connOut.result) :
               /\ FoundTogether
               /\ \E p \in NetPairs : connOut.result[n] = MatchOf(p)

\* C10 witness: ua and ub both exist under the parent name and share the clock net,
\* but in two different definitions; the call returned the empty list.
C10_Witness ==
    /\ connOut.called
    /\ connOut.result = <<>>
    /\ ~ FoundTogether
    /\ connIn.instanceA # connIn.instanceB
    /\ \E k \in 1..Len(ParentDefs) : HasInstance(ParentDefs[k], connIn.instanceA)
    /\ \E k \in 1..Len(ParentDefs) : HasInstance(ParentDefs[k], connIn.instanceB)

(***************************************************************************)
(* Properties of the sanitizer                                             *)
(***************************************************************************)
NewlineOffsets(t) == {k \in 1..Len(t) : t[k] = "\n"}

\* C1: the text stripVerilogComments returns has the length of its input and has a
\* newline at exactly the offsets where the input has one, so the number of lines is
\* the same.
C1_LengthAndNewlinesKept ==
    san.returned =>
        /\ Len(san.result) = Len(san.source)
        /\ NewlineOffsets(san.result) = NewlineOffsets(san.source)
        /\ san.result = stripVerilogComments(san.source)

\* C1 witness: a returned text that differs from its input where a block comment or an
\* attribute spanning a newline was blanked.
C1_Witness ==
    /\ san.returned
    /\ san.result # san.source
    /\ \E k \in 2..(Len(san.source) - 1) :
           /\ san.source[k] = "\n"
           /\ san.source[k - 1] = "*"
           /\ san.result[k - 1] = " "
           /\ san.result[k + 1] = " "
           /\ san.source[k + 1] # " "

\* The text has `word` at offset k (1-based).
HasAt(t, k, word) ==
    /\ k >= 1
    /\ k + Len(word) - 1 <= Len(t)
    /\ \A j \in 1..Len(word) : t[k + j - 1] = word[j]

\* The offset of the last character of the first `closer` that starts at or after
\* `from`; the end of the text when there is none (an unterminated region).
RegionEnd(t, from, closer) ==
    LET starts == {k \in from..Len(t) : HasAt(t, k, closer)}
    IN IF starts = {} THEN Len(t)
       ELSE (CHOOSE k \in starts : \A j \in starts : k <= j) + Len(closer) - 1

\* The offset of the last character before the first newline at or after `from`.
LineEnd(t, from) ==
    LET starts == {k \in from..Len(t) : t[k] = "\n"}
    IN IF starts = {} THEN Len(t)
       ELSE (CHOOSE k \in starts : \A j \in starts : k <= j) - 1

\* The lexical regions of a text, read as the language reads it: for each offset from
\* i on, "line", "block", "attr" or "string" when the character is part of a line
\* comment (// up to the newline), a block comment (/* through */), an attribute
\* ((* through *)) or a string literal (quote through quote), and "code" otherwise.
\* A region that is not closed runs to the end of the text.  An opener inside a region
\* is part of that region, and the parenthesised star (*) opens nothing.
RECURSIVE Regions(_, _)
Regions(t, i) ==
    IF i > Len(t) THEN <<>>
    ELSE LET kind == IF t[i] = "\"" THEN "string"
                     ELSE IF HasAt(t, i, <<"/", "/">>) THEN "line"
                     ELSE IF HasAt(t, i, <<"/", "*">>) THEN "block"
                     ELSE IF HasAt(t, i, <<"(", "*">>) /\ ~ HasAt(t, i, <<"(", "*", ")">>)
                     THEN "attr"
                     ELSE "code"
             end  == CASE kind = "string" -> RegionEnd(t, i + 1, <<"\"">>)
                       [] kind = "line"   -> LineEnd(t, i + 2)
                       [] kind = "block"  -> RegionEnd(t, i + 2, <<"*", "/">>)
                       [] kind = "attr"   -> RegionEnd(t, i + 2, <<"*", ")">>)
                       [] kind = "code"   -> i
         IN [k \in 1..(end - i + 1) |-> kind] \o Regions(t, end + 1)

RegionOf(t) == Regions(t, 1)

\* What a removed character becomes: a space, a newline staying a newline.
Removed(c) == IF c = "\n" THEN "\n" ELSE " "

\* A text with no comment, no string literal and no attribute annotation: no quote,
\* no // and no /*, and every (* is the parenthesised star (*).
PlainText(t) ==
    \A k \in 1..Len(t) :
        /\ t[k] # "\""
        /\ ~ HasAt(t, k, <<"/", "/">>)
        /\ ~ HasAt(t, k, <<"/", "*">>)
        /\ HasAt(t, k, <<"(", "*">>) => HasAt(t, k, <<"(", "*", ")">>)

\* A text in which no parenthesised star (*) stands in code.
NoEventControl(t) ==
    \A k \in 1..Len(t) : ~ (HasAt(t, k, <<"(", "*", ")">>) /\ RegionOf(t)[k] = "code")

\* C11: a text with no comment, no string literal and no attribute annotation, the
\* parenthesised star (*) of an event control not being one, is returned unchanged by
\* the sanitizer.
C11_PlainTextUnchanged ==
    (san.returned /\ PlainText(san.source)) => san.result = san.source

\* The part of C11 the code keeps: a plain text without any (* is returned unchanged.
C11_PlainTextWithoutStarUnchanged ==
    (/\ san.returned
     /\ PlainText(san.source)
     /\ \A k \in 1..Len(san.source) : ~ HasAt(san.source, k, <<"(", "*">>))
        => san.result = san.source

\* Every character of a line comment, a block comment or an attribute is removed and
\* every character of code is kept.
RegionsBlanked ==
    \A k \in 1..Len(san.source) :
        LET kind == RegionOf(san.source)[k]
        IN /\ kind \in {"line", "block", "attr"} => san.result[k] = Removed(san.source[k])
           /\ kind = "code" => san.result[k] = san.source[k]

\* C12: in the sanitizer output every character of a line comment, of a block comment
\* (through end of input when unterminated) and of an attribute is a space, newlines
\* staying newlines; every character outside comments, attributes and strings is
\* unchanged; an opener inside another region starts no region.
C12_RegionsBlanked ==
    san.returned => RegionsBlanked

\* The part of C12 the code keeps: the same on texts where no (*) stands in code.
C12_RegionsBlankedWithoutEventControl ==
    (san.returned /\ NoEventControl(san.source)) => RegionsBlanked

\* C13: in the sanitizer output every character of a string literal, from the opening
\* quote through the closing quote, is a space, newlines inside the string excepted.
C13_StringsBlanked ==
    san.returned =>
        \A k \in 1..Len(san.source) :
            RegionOf(san.source)[k] = "string" => san.result[k] = Removed(san.source[k])

\* The offset of the quote that closes a string whose inside starts at offset k, a
\* backslash and the character after it being one pair; the end of the text when the
\* string is not closed.
RECURSIVE EscStringEnd(_, _)
EscStringEnd(t, k) ==
    IF k > Len(t) THEN Len(t)
    ELSE IF t[k] = "\\" /\ k < Len(t) THEN EscStringEnd(t, k + 2)
    ELSE IF t[k] = "\"" THEN k
    ELSE EscStringEnd(t, k + 1)

\* The regions of a text as the sanitizer opens them (every (* opens an attribute),
\* a string running to the quote that closes it.
RECURSIVE EscRegions(_, _)
EscRegions(t, i) ==
    IF i > Len(t) THEN <<>>
    ELSE LET kind == IF t[i] = "\"" THEN "string"
                     ELSE IF HasAt(t, i, <<"/", "/">>) THEN "line"
                     ELSE IF HasAt(t, i, <<"/", "*">>) THEN "block"
                     ELSE IF HasAt(t, i, <<"(", "*">>) THEN "attr"
                     ELSE "code"
             end  == CASE kind = "string" -> EscStringEnd(t, i + 1)
                       [] kind = "line"   -> LineEnd(t, i + 2)
                       [] kind = "block"  -> RegionEnd(t, i + 2, <<"*", "/">>)
                       [] kind = "attr"   -> RegionEnd(t, i + 2, <<"*", ")">>)
                       [] kind = "code"   -> i
         IN [k \in 1..(end - i + 1) |-> kind] \o EscRegions(t, end + 1)

\* The scan is inside a comment or an attribute.
InComment == san.inLineComment \/ san.inBlockComment \/ san.inAttribute

\* While the scan stands on a character of a string literal it is in no comment and
\* in no attribute.
StringsOpenNothing ==
    (~ san.returned /\ san.i < Len(san.source))
        => (EscRegions(san.source, 1)[san.i + 1] = "string" => ~ InComment)

\* A backslash stands inside a string literal of the text.
EscapeInString(t) ==
    \E k \in 1..Len(t) : t[k] = "\\" /\ EscRegions(t, 1)[k] = "string"

\* C28: inside a string literal a backslash and the character after it are one pair:
\* an escaped quote does not end the string, so the sanitizer is in no comment and in
\* no attribute on any character up to the quote that closes the string.
C28_EscapedQuoteKeepsString == StringsOpenNothing

\* The part of C28 the code keeps: the same on texts with no backslash in a string.
C28_StringsWithoutEscapeOpenNothing ==
    ~ EscapeInString(san.source) => StringsOpenNothing

\* A string holding a comment opener and no backslash has been scanned to its end.
C28_PlainStringWitness ==
    /\ san.returned
    /\ ~ EscapeInString(san.source)
    /\ \E k \in 1..Len(san.source) :
           /\ EscRegions(san.source, 1)[k] = "string"
           /\ HasAt(san.source, k, <<"/", "/">>)

(***************************************************************************)
(* Properties of the preprocessor                                          *)
(***************************************************************************)
\* The lines of a text as <<first offset, offset past the last character>>, split at
\* each newline; the empty remainder after a final newline is not a line.
RECURSIVE LineSpans(_, _)
LineSpans(t, from) ==
    IF from >= Len(t) THEN <<>>
    ELSE LET nls == {k \in from..(Len(t) - 1) : t[k + 1] = "\n"}
             end == IF nls = {} THEN Len(t) ELSE CHOOSE k \in nls : \A h \in nls : k <= h
         IN <<<<from, end>>>> \o LineSpans(t, end + 1)

\* What a line says: its characters without the carriage return of a CR LF ending.
LineContent(t, span) ==
    LET raw == SubSeq(t, span[1] + 1, span[2])
    IN IF raw # <<>> /\ raw[Len(raw)] = "\r" THEN SubSeq(raw, 1, Len(raw) - 1) ELSE raw

PreSpans == LineSpans(pre.clean, 0)

PreContent(k) == LineContent(pre.clean, PreSpans[k])

\* The text is one conditional and nothing else: ifdef X, plain lines, else, plain
\* lines, endif.
ElseLines == {k \in 1..Len(PreSpans) : PreContent(k) = Dir(Kw_else, <<>>)}

IsTopLevelCond ==
    /\ Len(PreSpans) >= 3
    /\ PreContent(1) = Dir(Kw_ifdef, NameX)
    /\ PreContent(Len(PreSpans)) = Dir(Kw_endif, <<>>)
    /\ Cardinality(ElseLines) = 1
    /\ \A k \in 2..(Len(PreSpans) - 1) : k \in ElseLines \/ PreContent(k) \in PlainLines

ElseLine == CHOOSE k \in ElseLines : TRUE

ALines == 2..(ElseLine - 1)

BLines == (ElseLine + 1)..(Len(PreSpans) - 1)

\* Line k of the result is the input line, character for character.
Survives(k) ==
    SubSeq(pre.result, PreSpans[k][1] + 1, PreSpans[k][2])
        = SubSeq(pre.clean, PreSpans[k][1] + 1, PreSpans[k][2])

\* Line k of the result holds nothing but spaces (and the carriage return of its ending).
IsBlank(k) ==
    \A j \in (PreSpans[k][1] + 1)..PreSpans[k][2] : pre.result[j] \in {" ", "\r"}

CondSelectsBranch ==
    IF NameX \in pre.defines0
    THEN (\A k \in ALines : Survives(k)) /\ (\A k \in BLines : IsBlank(k))
    ELSE (\A k \in BLines : Survives(k)) /\ (\A k \in ALines : IsBlank(k))

\* C2 as stated: for a text that is one top-level conditional ifdef X / A-lines / else
\* / B-lines / endif, the B-lines survive and the A-lines are blank when X is not
\* defined, and the A-lines survive and the B-lines are blank when it is.
C2_BranchSelected ==
    (pre.returned /\ IsTopLevelCond) => CondSelectsBranch

\* The same property for texts whose lines end in a bare newline; it holds.
C2_BranchSelectedLineFeed ==
    (pre.returned /\ IsTopLevelCond /\ \A k \in 1..Len(pre.clean) : pre.clean[k] # "\r")
        => CondSelectsBranch

\* For each entry of the log, whether each frame on the stack after it was opened in
\* an inactive context: kept beside the stack, pushed and popped with it.
RECURSIVE OpenedInactive(_, _)
OpenedInactive(log, k) ==
    IF k = 0 THEN <<>>
    ELSE LET prev == OpenedInactive(log, k - 1)
             e    == log[k]
         IN IF Len(e.after) > Len(e.before)
            THEN Append(prev, Len(e.before) > 0 /\ ~ e.before[Len(e.before)].thisActive)
            ELSE IF Len(e.after) < Len(e.before)
            THEN SubSeq(prev, 1, Len(prev) - 1)
            ELSE prev

LineBlanked(e) == \A j \in (e.lineStart + 1)..e.lineEnd : pre.result[j] = " "

LineOf(t, span) == SubSeq(t, span[1] + 1, span[2])

OnlySpaces(line) == \A j \in 1..Len(line) : line[j] = " "

\* C14: the text preprocessVerilog returns has the length of its input and a newline
\* at exactly the offsets where the input has one, and each of its lines is the input
\* line unchanged or consists of spaces only.
C14_LinesKeptOrBlank ==
    pre.returned =>
        LET spans == PreSpans
        IN /\ Len(pre.result) = Len(pre.clean)
           /\ NewlineOffsets(pre.result) = NewlineOffsets(pre.clean)
           /\ \A k \in 1..Len(spans) :
                  \/ LineOf(pre.result, spans[k]) = LineOf(pre.clean, spans[k])
                  \/ OnlySpaces(LineOf(pre.result, spans[k]))

\* C14 witness: a returned text of three lines or more in which a line with text,
\* followed by a newline, was blanked and another line with text was kept.
C14_Witness ==
    LET spans == PreSpans
    IN /\ pre.returned
       /\ Len(spans) >= 3
       /\ \E k \in 1..(Len(spans) - 1) :
              /\ ~ OnlySpaces(LineOf(pre.clean, spans[k]))
              /\ OnlySpaces(LineOf(pre.result, spans[k]))
       /\ \E k \in 1..Len(spans) :
              /\ ~ OnlySpaces(LineOf(pre.clean, spans[k]))
              /\ LineOf(pre.result, spans[k]) = LineOf(pre.clean, spans[k])

\* A directive line as the specification describes it: optional white space, the
\* grave accent, a word of one character or more, and the rest of the line.
IsDirectiveLine(lineText) ==
    LET ws == RunLength(lineText, 0, WhiteSpace)
    IN /\ ws + 2 <= Len(lineText)
       /\ lineText[ws + 1] = BackTick
       /\ lineText[ws + 2] \in WordChars

\* The line of log entry e is the input line in the result.
LineKept(e) ==
    SubSeq(pre.result, e.lineStart + 1, e.lineEnd) = SubSeq(pre.clean, e.lineStart + 1, e.lineEnd)

\* Directive lines are blank in the result; the other lines are kept where the stack
\* was empty or its top frame active when they were read, and blank elsewhere.
DirectivesBlankOthersByContext ==
    \A k \in 1..Len(pre.log) :
        LET e == pre.log[k]
        IN IF IsDirectiveLine(Slice(pre.clean, e.lineStart, e.lineEnd))
           THEN LineBlanked(e)
           ELSE IF isActive(e.before) THEN LineKept(e) ELSE LineBlanked(e)

\* C15: every line matching the directive pattern is blank in the preprocessor output,
\* in an active or an inactive context and whether or not the directive is one of the
\* seven; every other line is unchanged if and only if the stack is empty or its top
\* frame is active, and blank otherwise.
C15_DirectivesBlanked ==
    pre.returned => DirectivesBlankOthersByContext

\* The part of C15 the code keeps: the same for texts whose lines end in a bare newline.
C15_DirectivesBlankedLineFeed ==
    (pre.returned /\ \A k \in 1..Len(pre.clean) : pre.clean[k] # "\r")
        => DirectivesBlankOthersByContext

\* The code took the line of log entry e for a directive exactly when it is a directive
\* line.
DirectivesRead ==
    \A k \in 1..Len(pre.log) :
        LET e == pre.log[k]
        IN IsDirectiveLine(Slice(pre.clean, e.lineStart, e.lineEnd)) <=> e.directive # <<>>

NoCarriageReturn == \A k \in 1..Len(pre.clean) : pre.clean[k] # "\r"

\* The name of the directive of log entry e is defined when the line is read.
NameDefined(e) == NameMatch(e.rest) # <<>> /\ NameMatch(e.rest)[1] \in e.defines

\* The condition of a branch directive, evaluated when its line is read.
BranchCondition(e) ==
    IF e.directive = Kw_ifdef \/ e.directive = Kw_elsif THEN NameDefined(e)
    ELSE IF e.directive = Kw_ifndef THEN ~ NameDefined(e)
    ELSE TRUE

\* Log entry k starts a branch: ifdef or ifndef, or an elsif or else inside a frame.
IsBranch(k) ==
    LET e == pre.log[k]
    IN \/ e.directive \in {Kw_ifdef, Kw_ifndef}
       \/ e.directive \in {Kw_elsif, Kw_else} /\ e.before # <<>>

\* The entry of the ifdef or ifndef whose frame is on top after entry k.
Opener(k) ==
    CHOOSE p \in 1..k :
        /\ pre.log[p].directive \in {Kw_ifdef, Kw_ifndef}
        /\ Len(pre.log[p].after) = Len(pre.log[k].after)
        /\ \A j \in p..k : Len(pre.log[j].after) >= Len(pre.log[p].after)

BranchesOf(p) == {k \in p..Len(pre.log) : IsBranch(k) /\ Opener(k) = p}

ActiveAfter(k) == isActive(pre.log[k].after)

\* A branch is active exactly when the context of its frame was active, no earlier
\* branch of the frame had a true condition, and its own condition is true; so at most
\* one branch of a frame is active, and one is when the context was active and the
\* frame has an else; the lines of a branch are kept if it is active and blank if not.
BranchRule ==
    /\ \A k \in 1..Len(pre.log) :
           IsBranch(k) =>
               (ActiveAfter(k) <=>
                    /\ isActive(pre.log[Opener(k)].before)
                    /\ BranchCondition(pre.log[k])
                    /\ \A j \in BranchesOf(Opener(k)) : j < k => ~ BranchCondition(pre.log[j]))
    /\ \A p \in 1..Len(pre.log) :
           pre.log[p].directive \in {Kw_ifdef, Kw_ifndef} =>
               LET active == {k \in BranchesOf(p) : ActiveAfter(k)}
               IN /\ Cardinality(active) <= 1
                  /\ (/\ isActive(pre.log[p].before)
                      /\ \E k \in BranchesOf(p) : pre.log[k].directive = Kw_else)
                         => Cardinality(active) = 1
    /\ \A k \in 1..Len(pre.log) :
           LET e == pre.log[k]
           IN (e.directive = <<>> /\ e.before # <<>>) =>
                  IF isActive(e.before) THEN LineKept(e) ELSE LineBlanked(e)

\* C25: the directive lines of a conditional are read as directives, and within the
\* frame a branch is active iff the enclosing context was active when the frame was
\* pushed, no earlier branch of the frame had a true condition and its own condition
\* is true when its line is read; non-directive lines survive in at most one branch,
\* and in exactly one when the parent is active and an else is present.
C25_OneBranchPerFrame ==
    pre.returned => (DirectivesRead /\ BranchRule)

\* The part of C25 the code keeps: the same for texts whose lines end in a bare newline.
C25_OneBranchPerFrameLineFeed ==
    (pre.returned /\ NoCarriageReturn) => (DirectivesRead /\ BranchRule)

\* A frame with three branches, the second of which is the active one, read to its end.
C25_BranchWitness ==
    /\ pre.returned /\ NoCarriageReturn
    /\ \E p \in 1..Len(pre.log) :
           /\ pre.log[p].directive \in {Kw_ifdef, Kw_ifndef}
           /\ Cardinality(BranchesOf(p)) = 3
           /\ \E k \in BranchesOf(p) : k > p /\ ActiveAfter(k) /\ pre.log[k].directive = Kw_elsif

\* What the line of log entry e does to a defines set: a define adds its name and an
\* undef removes it where the context is active; every other line leaves the set.
Redefined(e, defines) ==
    IF isActive(e.before) /\ NameMatch(e.rest) # <<>> /\ e.directive = Kw_define
    THEN defines \cup {NameMatch(e.rest)[1]}
    ELSE IF isActive(e.before) /\ NameMatch(e.rest) # <<>> /\ e.directive = Kw_undef
    THEN defines \ {NameMatch(e.rest)[1]}
    ELSE defines

\* The defines set after the first k lines, from the set the call was given.
RECURSIVE DefinesAfter(_)
DefinesAfter(k) ==
    IF k = 0 THEN pre.defines0 ELSE Redefined(pre.log[k], DefinesAfter(k - 1))

\* Every line is read with the set the lines before it left, the call leaves the set
\* of its last line, and a branch whose condition is evaluated is active exactly when
\* the condition holds in the set the lines before it left.
DefinesFollowLines ==
    /\ \A k \in 1..Len(pre.log) : pre.log[k].defines = DefinesAfter(k - 1)
    /\ pre.defines = DefinesAfter(Len(pre.log))
    /\ \A k \in 1..Len(pre.log) :
           LET e == [pre.log[k] EXCEPT !.defines = DefinesAfter(k - 1)]
           IN (/\ IsBranch(k) /\ e.directive # Kw_else
               /\ isActive(pre.log[Opener(k)].before)
               /\ \A j \in BranchesOf(Opener(k)) : j < k => ~ ActiveAfter(j))
                  => (ActiveAfter(k) <=> BranchCondition(e))

\* C26: a define line adds its name to the defines and an undef line removes it when
\* the line is read in an active context, and only then; the change is seen by every
\* later ifdef, ifndef and elsif of the text and by none before it.
C26_DefineOnlyWhenActive ==
    pre.returned => (DirectivesRead /\ DefinesFollowLines)

\* The part of C26 the code keeps: the same for texts whose lines end in a bare newline.
C26_DefineOnlyWhenActiveLineFeed ==
    (pre.returned /\ NoCarriageReturn) => (DirectivesRead /\ DefinesFollowLines)

\* A define read in an inactive context and left without effect, and a define read in
\* an active context whose name a later ifdef finds.
C26_InactiveDefineWitness ==
    /\ pre.returned /\ NoCarriageReturn
    /\ \E k \in 1..Len(pre.log) :
           /\ pre.log[k].directive = Kw_define /\ ~ isActive(pre.log[k].before)
           /\ NameX \notin DefinesAfter(k)

C26_ActiveDefineWitness ==
    /\ pre.returned /\ NoCarriageReturn /\ NameX \notin pre.defines0
    /\ \E k \in 1..Len(pre.log) : \E j \in (k + 1)..Len(pre.log) :
           /\ pre.log[k].directive = Kw_define /\ isActive(pre.log[k].before)
           /\ pre.log[j].directive = Kw_ifdef /\ ActiveAfter(j)

\* The defines set as the code holds it after log entry k.
DefinesLeftBy(k) == IF k < Len(pre.log) THEN pre.log[k + 1].defines ELSE pre.defines

\* C27: an endif, an elsif or an else read with an empty stack changes nothing: the
\* stack stays empty and the defines are as before; the call reads every line to the
\* end of the text and returns a text of the same length, also when an ifdef is never
\* closed; and every non-directive line read with an empty stack is passed through.
C27_StrayDirectivesIgnored ==
    pre.returned =>
        LET spans == PreSpans
        IN
        /\ Len(pre.log) = Len(spans)
        /\ Len(pre.result) = Len(pre.clean)
        /\ \A k \in 1..Len(pre.log) :
               LET e == pre.log[k]
               IN /\ e.lineStart = spans[k][1]
                  /\ (e.directive \in {Kw_endif, Kw_elsif, Kw_else} /\ e.before = <<>>) =>
                         (e.after = <<>> /\ DefinesLeftBy(k) = e.defines)
                  /\ (e.directive = <<>> /\ e.before = <<>>) => LineKept(e)

\* C27 witness: a stray endif, then a non-directive line that came through, then an
\* ifdef that is never closed.
C27_Witness ==
    /\ pre.returned /\ pre.stack # <<>>
    /\ \E k \in 1..(Len(pre.log) - 1) :
           /\ pre.log[k].directive = Kw_endif /\ pre.log[k].before = <<>>
           /\ pre.log[k + 1].directive = <<>>
           /\ Slice(pre.result, pre.log[k + 1].lineStart, pre.log[k + 1].lineEnd) = <<"a">>

(***************************************************************************)
(* Properties of the structural extractor                                  *)
(***************************************************************************)
\* The port list <<a: input, no range; b: output, range [7:0]>>.
PortsAB(ports) ==
    /\ Len(ports) = 2
    /\ ports[1].name = <<"a">> /\ ports[1].direction = <<"i", "n", "p", "u", "t">> /\ ports[1].rangeText = UNDEF
    /\ ports[2].name = <<"b">> /\ ports[2].direction = <<"o", "u", "t", "p", "u", "t">>
    /\ ports[2].rangeText = <<"[", "7", ":", "0", "]">>

\* The instance list <<u1 of type sub, bound .a(a) and .b(net1) in that order>>.
OneInstanceU1(instances) ==
    /\ Len(instances) = 1
    /\ instances[1].instanceName = <<"u", "1">>
    /\ instances[1].moduleName = <<"s", "u", "b">>
    /\ Len(instances[1].bindings) = 2
    /\ instances[1].bindings[1].portName = <<"a">> /\ instances[1].bindings[1].expr = <<"a">>
    /\ instances[1].bindings[2].portName = <<"b">> /\ instances[1].bindings[2].expr = <<"n", "e", "t", "1">>

OneModuleM(modules) == Len(modules) = 1 /\ modules[1].name = <<"m">>

SingleLineText == ExText(HeaderPlain, <<" ">>, StmtInst, <<" ">>, <<>>)

\* The example with the instantiation starting a line of its own.
OwnLineTexts ==
    {ExText(HeaderPlain, sp, StmtInst, c, <<>>) :
        sp \in {s \in ExSeparators : \E k \in 1..Len(s) : s[k] = "\n"}, c \in ExClosers}

OffsetOf(text, location) ==
    getLineStarts(text)[location.pos.line + 1] + location.pos.character

\* The whole word endmodule stands at offset p.
EndmoduleAt(text, p) ==
    /\ StartsWith(text, p, Kw_endmodule)
    /\ IsWordBoundary(text, p)
    /\ IsWordBoundary(text, p + Len(Kw_endmodule))

\* The body of the k-th detected module: from the end of its name to the first
\* endmodule, the start of a later header or the end of the text.
BodyFrom(k) == ex.moduleMatches[k].bodyStart

BodyTo(k) ==
    Least({p \in BodyFrom(k)..Len(ex.clean) :
              \/ p = Len(ex.clean)
              \/ EndmoduleAt(ex.clean, p)
              \/ \E j \in (k + 1)..Len(ex.moduleMatches) : ex.moduleMatches[j].start = p})

\* The start of the header after the k-th, the end of the text for the last one.
NextHeader(k) ==
    IF k < Len(ex.moduleMatches) THEN ex.moduleMatches[k + 1].start ELSE Len(ex.clean)

\* The offsets in the body of the k-th module where an instantiation starts.
StatementsIn(k) ==
    {p \in BodyFrom(k)..(BodyTo(k) - 1) :
        /\ InstMatchAt(ex.clean, p) # <<>>
        /\ toLowerCase(InstMatchAt(ex.clean, p)[1].moduleName) \notin keywords
        /\ toLowerCase(InstMatchAt(ex.clean, p)[1].instanceName) \notin keywords}

\* The offsets of the instances reported for the k-th module.
InstancesAt(k) ==
    {OffsetOf(ex.clean, ex.modules[k].instances[n].location) :
        n \in 1..Len(ex.modules[k].instances)}

\* C29: the body of a module ends at the first whole-word endmodule after its header or
\* at the start of the next detected header, whichever comes first: the instances of a
\* module are the instantiations that start in this body, the bodies of two modules do
\* not overlap, no instantiation is reported for two modules, and none that starts after
\* an endmodule and before the next header is reported for any module.
C29_BodiesDisjoint ==
    ex.at \in {"modules", "done"} =>
        /\ \A k \in 1..Len(ex.modules) : InstancesAt(k) = StatementsIn(k)
        /\ \A k \in 1..Len(ex.moduleMatches) :
               /\ BodyFrom(k) <= BodyTo(k)
               /\ \A j \in (k + 1)..Len(ex.moduleMatches) : BodyTo(k) <= BodyFrom(j)
        /\ \A k, j \in 1..Len(ex.modules) : k # j => InstancesAt(k) \cap InstancesAt(j) = {}
        /\ \A k \in 1..Len(ex.moduleMatches), j \in 1..Len(ex.modules) :
               \A p \in InstancesAt(j) : ~ (BodyTo(k) <= p /\ p < NextHeader(k))

\* C29 witness: two modules were read from a text with an instantiation between the
\* endmodule of the first and the header of the second, and with one after the
\* endmodule of the second; each module reports its own instance only.
C29_Witness ==
    /\ ex.returned
    /\ ex.source = BodyText(<<"e", "n", "d", "m", "o", "d", "u", "l", "e", "\n">>, <<"s", "u", "b", " ", "u", "3", "(", ".", "a", "(", "a", ")", ")", ";", "\n">>, <<"e", "n", "d", "m", "o", "d", "u", "l", "e", "\n">>, <<"s", "u", "b", " ", "u", "4", "(", ".", "a", "(", "a", ")", ")", ";", "\n">>)
    /\ Len(ex.modules) = 2
    /\ Len(ex.modules[1].instances) = 1
    /\ ex.modules[1].instances[1].instanceName = <<"u", "1">>
    /\ Len(ex.modules[2].instances) = 1
    /\ ex.modules[2].instances[1].instanceName = <<"u", "2">>

\* The first module has no endmodule: its body ends at the header of the second, and
\* the instantiation before that header is its own.
C29_NextHeaderWitness ==
    /\ ex.returned
    /\ ex.source = BodyText(<<>>, <<"s", "u", "b", " ", "u", "3", "(", ".", "a", "(", "a", ")", ")", ";", "\n">>, <<"e", "n", "d", "m", "o", "d", "u", "l", "e", "\n">>, <<>>)
    /\ Len(ex.modules) = 2
    /\ Len(ex.modules[1].instances) = 2
    /\ Len(ex.modules[2].instances) = 1

\* The character c stands in the header of the k-th module, before the next header.
HeaderHolds(k, c) ==
    \E p \in BodyFrom(k)..(NextHeader(k) - 1) : At(ex.clean, p) = c

\* The header of the k-th module has its semicolon before the next header.
Terminated(k) == HeaderHolds(k, ";")

\* The offsets of the ports reported for the k-th module.
PortsAt(k) ==
    {OffsetOf(ex.clean, ex.modules[k].ports[n].location) : n \in 1..Len(ex.modules[k].ports)}

\* The ports of the k-th module lie between the start of its header and the end of
\* its body, and there are none when the header has no semicolon or no parenthesis
\* before the next header.
PortsOwn(k) ==
    /\ \A p \in PortsAt(k) : ex.moduleMatches[k].start <= p /\ p < BodyTo(k)
    /\ (~ Terminated(k) \/ ~ HeaderHolds(k, "(")) => ex.modules[k].ports = <<>>

\* The complete module that follows a malformed one reports its own port.
SiblingKept ==
    (ex.returned /\ ex.source \in PortTexts) =>
        /\ Len(ex.modules) = 2
        /\ Len(ex.modules[2].ports) = 1
        /\ ex.modules[2].ports[1].name = <<"x">>

\* C30: the ports reported for a module come from its own header: each lies between
\* the start of the header and the end of the module, a module whose header has no
\* semicolon or no port parentheses before the next module header reports no ports,
\* and the ports of the other modules of the file are as they are without it.
C30_PortsFromOwnHeader ==
    ex.at \in {"modules", "done"} =>
        /\ \A k \in 1..Len(ex.modules) : PortsOwn(k)
        /\ SiblingKept

\* The part of C30 the code keeps: the same for the modules whose header has its
\* semicolon before the next header.
C30_TerminatedHeadersOwnPorts ==
    ex.at \in {"modules", "done"} =>
        /\ \A k \in 1..Len(ex.modules) : Terminated(k) => PortsOwn(k)
        /\ SiblingKept

\* A module with a complete header and ports has been read before a second module.
C30_TerminatedWitness ==
    /\ ex.returned
    /\ ex.source = PortText(<<"m", "o", "d", "u", "l", "e", " ", "a", "(", "i", "n", "p", "u", "t", " ", "y", ")", ";", "\n">>)
    /\ Len(ex.modules[1].ports) = 1
    /\ ex.modules[1].ports[1].name = <<"y">>

(***************************************************************************)
(* Properties of parseFiles and the design index                           *)
(***************************************************************************)
KeyOf(m, field) == IF field = "name" THEN m.name ELSE m.uri

\* The map groups the list: its keys differ from one another, each entry holds, in
\* discovery order, exactly the modules of the list that have its key, at least one,
\* and every module of the list has an entry.
Groups(map, modules, field) ==
    /\ \A i \in 1..Len(map) : \A j \in 1..Len(map) : map[i].key = map[j].key => i = j
    /\ \A i \in 1..Len(map) :
           /\ map[i].val # <<>>
           /\ map[i].val = SelectSeq(modules, LAMBDA m : KeyOf(m, field) = map[i].key)
    /\ \A k \in 1..Len(modules) : \E i \in 1..Len(map) : map[i].key = KeyOf(modules[k], field)

RECURSIVE SumLen(_)
SumLen(map) == IF map = <<>> THEN 0 ELSE Len(Head(map).val) + SumLen(Tail(map))

\* C18: in the DesignIndex parseFiles returns, modulesByName[name] is exactly the
\* subsequence of `modules` with that name and modulesByFile[file] exactly the
\* subsequence of `modules` from that file, in discovery order; every module is in
\* each map exactly once, duplicates being neither merged nor dropped.
C18_IndexGroupsModules ==
    pf.returned =>
        LET design == pf.result[1]
        IN /\ design.modules = pf.modules
           /\ Groups(design.modulesByName, design.modules, "name")
           /\ Groups(design.modulesByFile, design.modules, "uri")
           /\ SumLen(design.modulesByName) = Len(design.modules)
           /\ SumLen(design.modulesByFile) = Len(design.modules)

\* C18 witness: a returned index in which one name has definitions from two files
\* and one file has two modules.
C18_Witness ==
    /\ pf.returned
    /\ \E i \in 1..Len(pf.result[1].modulesByName) :
           LET val == pf.result[1].modulesByName[i].val
           IN Len(val) >= 2 /\ val[1].uri # val[Len(val)].uri
    /\ \E i \in 1..Len(pf.result[1].modulesByFile) :
           LET val == pf.result[1].modulesByFile[i].val
           IN Len(val) >= 2 /\ val[1].name # val[2].name

\* The modules of one file parsed on its own with the given defines.
ModulesAlone(file, defines, enablePreprocess) ==
    LET texts   == {IF enablePreprocess THEN preprocessVerilog(stripped, defines).text
                    ELSE stripped : stripped \in {stripVerilogComments(file.content)}}
        results == {ModuleLoop(text, file.uri, ModuleMatches(text, 0), 1) : text \in texts}
    IN CHOOSE modsInFile \in results : TRUE

\* The set the caller passed, as the call received it (empty when none was passed).
CallerDefines == IF pf.defines = Null THEN {} ELSE pf.defines[1]

\* The step read and parsed a file.
FileParsed == pf'.i = pf.i + 1 /\ pf.files[pf'.i].content # Unreadable

\* The defines as the last file parsed before this step left them.
RECURSIVE DefinesLeft(_, _)
DefinesLeft(history, k) ==
    IF k = 0 THEN CallerDefines
    ELSE IF history[k] # Null THEN history[k][1]
    ELSE DefinesLeft(history, k - 1)

\* C21: every file is parsed with a copy of the caller's defines.  A file read after
\* one that defined or undefined a name contributes what it yields parsed on its own
\* with the caller's set, and the caller's set keeps its content throughout the call
\* and after it has returned.
C21_FilesParsedInIsolation ==
    [][/\ pf'.activeDefines = CallerDefines
       /\ pf'.defines = pf.defines
       /\ (FileParsed /\ DefinesLeft(pf.fileDefines, pf.i) # CallerDefines) =>
              pf'.modules = pf.modules \o ModulesAlone(pf.files[pf'.i], CallerDefines,
                                                       pf.enablePreprocess)]_vars

\* C21 witness: a returned scan with the preprocessor on, in which a file changed its
\* defines and a later file holds a module for each branch of `ifdef X.
C21_Witness ==
    /\ pf.returned /\ pf.enablePreprocess
    /\ \E j \in 1..Len(pf.files) : \E k \in (j + 1)..Len(pf.files) :
           /\ pf.files[j].content = TextToggleX
           /\ pf.fileDefines[j] # Some(CallerDefines)
           /\ pf.files[k].content = TextIfdefXModuleAElseB

\* C22: a file is parsed with the defines as the files before it left them: what it
\* contributes is what it yields parsed on its own with that set.
C22_DefinesPersistAcrossFiles ==
    [][FileParsed =>
           pf'.modules = pf.modules \o ModulesAlone(pf.files[pf'.i],
                                                    DefinesLeft(pf.fileDefines, pf.i),
                                                    pf.enablePreprocess)]_vars

\* The position of the file with the given uri in the list of the call.
FileIndex(uri) == CHOOSE k \in 1..Len(pf.files) : pf.files[k].uri = uri

\* The step tried to read a file and the read failed.
ReadFailed == pf'.i # pf.i /\ pf.files[pf.i + 1].content = Unreadable

\* C23: a file whose read fails contributes no module and the loop goes on with the
\* next file; the files read after it contribute what they yield on their own; the
\* call returns an index of the modules collected, which come from the files that
\* were read and stand in the order of those files.
C23_FailedReadSkipsFile ==
    /\ [](/\ \A k \in 1..Len(pf.modules) :
                 /\ pf.files[FileIndex(pf.modules[k].uri)].content # Unreadable
                 /\ \A j \in 1..(k - 1) :
                        FileIndex(pf.modules[j].uri) <= FileIndex(pf.modules[k].uri)
          /\ pf.returned => (pf.i = Len(pf.files) /\ pf.result = Some(BuildIndex(pf.modules))))
    /\ [][/\ ReadFailed =>
                 (pf'.modules = pf.modules /\ pf'.i = pf.i + 1 /\ ~ pf'.returned)
          /\ (FileParsed /\ \E j \in 1..pf.i : pf.files[j].content = Unreadable) =>
                 pf'.modules = pf.modules \o ModulesAlone(pf.files[pf'.i], CallerDefines,
                                                          pf.enablePreprocess)]_vars

\* C23 witness: a returned index with modules of a file before and of a file after
\* one whose read failed.
C23_Witness ==
    /\ pf.returned
    /\ \E j \in 1..Len(pf.files) :
           /\ pf.files[j].content = Unreadable
           /\ \E m \in Range(pf.result[1].modules) : FileIndex(m.uri) < j
           /\ \E m \in Range(pf.result[1].modules) : FileIndex(m.uri) > j

\* C24: with enablePreprocess false a file contributes the modules of its sanitized
\* text, directive lines and the lines of every branch included, which no defines
\* set enters; the set the file was parsed with is left as the caller's, and the
\* caller's set is left as it was.
C24_QuickScanIgnoresDefines ==
    [][(FileParsed /\ ~ pf.enablePreprocess) =>
           \E file \in {pf.files[pf'.i]} : \E text \in {stripVerilogComments(file.content)} :
              /\ pf'.modules = pf.modules \o ModuleLoop(text, file.uri, ModuleMatches(text, 0), 1)
              /\ pf'.fileDefines[pf'.i] = Some(CallerDefines)
              /\ pf'.activeDefines = CallerDefines]_vars

\* C24 witness: a returned scan without preprocessing whose index holds the module of
\* the `ifdef X branch and the module of the `else branch of one file.
C24_Witness ==
    /\ pf.returned /\ ~ pf.enablePreprocess
    /\ \E k \in 1..Len(pf.files) :
           /\ pf.files[k].content = TextIfdefXModuleAElseB
           /\ \E m \in Range(pf.result[1].modules) : m.uri = pf.files[k].uri /\ m.name = <<"a">>
           /\ \E m \in Range(pf.result[1].modules) : m.uri = pf.files[k].uri /\ m.name = <<"b">>

(***************************************************************************)
(* Properties of the refresh controller                                    *)
(***************************************************************************)
ScanRunning == rf.at # "idle"

\* A fullRefresh call rejected and left the flag set.
ScanAbandoned == rf.at = "idle" /\ rf.refreshInProgress

\* C19: currentDesign is assigned only when a scan has finished.  In every step that
\* ends inside a scan currentDesign keeps its value, which is null or a design
\* parseFiles returned; a design appears only when every file of the scan has been
\* read, built from all the modules collected; and no design is modified afterwards,
\* so the references the readers hold keep their content.
C19_DesignPublishedWhole ==
    [][/\ rf'.at # "idle" => rf'.currentDesign = rf.currentDesign /\ rf'.heap = rf.heap
       /\ rf'.currentDesign \in 0..Len(rf'.heap)
       /\ \A id \in 1..Len(rf.heap) : id <= Len(rf'.heap) /\ rf'.heap[id] = rf.heap[id]
       /\ rf'.heap # rf.heap =>
              /\ rf.at = "readFile" /\ rf.i = Len(rf.files)
              /\ rf'.heap = Append(rf.heap, BuildIndex(rf.modules))
              /\ rf'.currentDesign = Len(rf'.heap)
       /\ rf'.currentDesign # rf.currentDesign =>
              rf'.currentDesign = 0 \/ rf'.heap # rf.heap]_vars

\* A later scan has read a file while a handler holds the design of an earlier scan
\* and currentDesign is a newer one.
C19_Witness ==
    /\ rf.at = "readFile" /\ rf.i > 0 /\ rf.modules # <<>>
    /\ rf.held # 0 /\ rf.currentDesign # 0 /\ rf.held # rf.currentDesign
    /\ rf.heap[rf.held] # rf.heap[rf.currentDesign]

\* What the timers and the flags remember of the requests in a state.
RequestsRemembered ==
    IF ScanRunning
    THEN rf.unserved > 0 <=> (rf.armed # {} \/ rf.refreshPending)
    ELSE /\ ~ rf.refreshPending
         /\ Cardinality(rf.armed) = IF rf.unserved > 0 THEN 1 ELSE 0

\* A timer that fires calls fullRefresh once and leaves no timer; a scan starts only
\* in such a call and serves every request made so far; a scan that returns leaves
\* one timer if requests were made during it and none otherwise.
OneCallPerTimer ==
    /\ rf'.calls \in {rf.calls, rf.calls + 1}
    /\ rf'.calls # rf.calls => Cardinality(rf.armed) = 1 /\ rf'.armed = {}
    /\ (rf.at = "idle" /\ rf'.at # "idle") => rf'.calls # rf.calls /\ rf'.unserved = 0
    /\ (rf.at = "readFile" /\ rf'.at = "idle") =>
           /\ ~ rf'.refreshPending /\ ~ rf'.refreshInProgress
           /\ Cardinality(rf'.armed) = IF rf.unserved > 0 THEN 1 ELSE 0

\* C20: after any number of scheduleFullRefresh calls exactly one timer is set, the
\* last one, and when it fires fullRefresh is called once.  The requests made while a
\* scan is in progress are remembered by that timer or by refreshPending, and once no
\* scan is in progress they have left exactly one timer, whose scan serves them all.
C20_RequestsCoalesce ==
    /\ [](/\ rf.armed = IF rf.burst > 0 THEN {rf.refreshTimer} ELSE {}
          /\ RequestsRemembered)
    /\ [][OneCallPerTimer]_vars

\* The part of C20 the code keeps: the same as long as no fullRefresh call has rejected.
C20_RequestsCoalesceWhileScansReturn ==
    /\ [](/\ rf.armed = IF rf.burst > 0 THEN {rf.refreshTimer} ELSE {}
          /\ ~ ScanAbandoned => RequestsRemembered)
    /\ [][OneCallPerTimer]_vars

\* A scan has finished during which two requests were made and one timer fired: one
\* timer is set.
C20_Witness ==
    /\ rf.at = "idle" /\ ~ rf.refreshInProgress
    /\ Len(rf.heap) >= 1
    /\ rf.unserved = 2 /\ rf.calls >= 2
    /\ Cardinality(rf.armed) = 1

\* The position of a uri in a list of files.
PlaceIn(files, uri) == CHOOSE k \in 1..Len(files) : files[k] = uri

\* The modules of a design stand in the order of the file list, and in the order of
\* the text within a file.
InFileOrder(modules, files) ==
    \A i, j \in 1..Len(modules) :
        i < j => \/ PlaceIn(files, modules[i].uri) < PlaceIn(files, modules[j].uri)
                 \/ /\ modules[i].uri = modules[j].uri
                    /\ modules[i].definitionRange < modules[j].definitionRange

\* findFiles lists the files of every workspace in ascending order of their uris:
\* the order in which any scan discovers the files it reads.
DiscoveryOrder ==
    [k \in 1..Greatest({Len(WorkspaceShapes[n]) : n \in 1..Len(WorkspaceShapes)}) |-> k]

\* A scan publishes its design in this step.
Publishes == rf.at = "readFile" /\ rf'.at = "idle"

\* C34: the modules of a published design stand in the order of the files as they
\* were discovered and in textual order within each file, whatever the order in which
\* the stat and read operations of the scan completed.
C34_DiscoveryOrderKept ==
    [][Publishes => InFileOrder(rf'.heap[rf'.currentDesign].modules, DiscoveryOrder)]_vars

\* The part of C34 the code keeps: the modules stand in the order of the list
\* filterFilesBySize returned.
C34_FilteredOrderKept ==
    [][Publishes => InFileOrder(rf'.heap[rf'.currentDesign].modules, rf.files)]_vars

\* A design with the modules of two files has been published.
C34_TwoFilesWitness ==
    /\ rf.at = "idle" /\ rf.currentDesign # 0
    /\ \E i, j \in 1..Len(rf.heap[rf.currentDesign].modules) :
           rf.heap[rf.currentDesign].modules[i].uri # rf.heap[rf.currentDesign].modules[j].uri

\* What a scan has found, read and published so far.
ScanProgress(st) ==
    <<st.at, st.files, st.i, st.modules, st.heap,
      st.currentDesign, st.projectDesign, st.hierarchyDesign>>

\* A fullRefresh call made while a scan is suspended only notes the request; while a
\* scan goes on nothing is published; a scan starts only when none is in progress.
OneScanAtATime ==
    /\ (ScanRunning /\ rf'.calls # rf.calls) =>
           /\ ScanProgress(rf') = ScanProgress(rf)
           /\ rf'.refreshPending /\ rf'.refreshInProgress
    /\ (ScanRunning /\ rf'.at # "idle") =>
           rf'.heap = rf.heap /\ rf'.currentDesign = rf.currentDesign
    /\ (~ ScanRunning /\ rf'.at # "idle") =>
           /\ ~ rf.refreshInProgress /\ rf'.refreshInProgress
           /\ rf'.at = "loadFilelist" /\ rf'.calls = rf.calls + 1
    /\ rf'.heap # rf.heap => Publishes /\ rf'.currentDesign = Len(rf'.heap)

\* C35: at most one scan is in progress: a fullRefresh call made while a scan is
\* suspended at an await returns without reading files or publishing a design, a scan
\* starts only when the flag is clear, and the designs are published one scan after
\* the other, the current one being the one published last.
C35_OneScanAtATime ==
    /\ [](ScanRunning => rf.refreshInProgress)
    /\ [][OneScanAtATime]_vars

\* C35 witness: a timer fired while a scan had read a file and not yet the next; the
\* call returned and the scan goes on.
C35_Witness ==
    /\ rf.at = "readFile" /\ rf.i > 0 /\ rf.i < Len(rf.files)
    /\ rf.refreshPending /\ rf.calls >= 2

\* The scheduleFullRefresh calls of activation, commands and watcher events so far.
RequestsMade == rf.requests + 1

\* The requests that had been made when the last scan started.
RequestsServed == RequestsMade - rf.unserved

\* The scan that started last has run to completion and its fullRefresh has returned.
LastScanDone == rf.at = "idle" /\ ~ rf.refreshInProgress

\* C36: when the timers fire and the file operations return, every refresh request,
\* one made during a scan included, is followed by a scan that starts after the
\* request was made and runs to completion: whenever requests are not yet served, a
\* state follows in which a scan that started after all the requests made (they are
\* finitely many) has completed, unless a file operation rejected.
C36_RequestsServed ==
    (RequestsServed < RequestsMade)
        ~> ((RequestsServed = RequestsMade /\ LastScanDone) \/ ScanAbandoned)

\* C36 witness: a request was made during a scan and its timer fired during that
\* scan; the scan scheduled when the first one returned has completed too.
C36_Witness ==
    /\ LastScanDone
    /\ rf.requests >= 1 /\ rf.unserved = 0
    /\ rf.calls >= 3 /\ Len(rf.heap) >= 2

\* C37: refreshInProgress is set only while a fullRefresh call is executing: whenever
\* no call is suspended at an await, the last one having returned or rejected, the
\* flag is clear; and refreshPending is set only while the flag is.
C37_FlagClearedWhenDone ==
    /\ rf.at = "idle" => ~ rf.refreshInProgress
    /\ rf.refreshPending => rf.refreshInProgress

\* The part of C37 the code keeps: a fullRefresh call that returns leaves both flags
\* clear, and refreshPending is set only while refreshInProgress is.
C37_FlagClearedOnReturn ==
    /\ [](rf.refreshPending => rf.refreshInProgress)
    /\ [][(~ rf.refreshInProgress /\ rf'.at = "idle" /\ rf'.calls # rf.calls) \/ Publishes
              => ~ rf'.refreshInProgress /\ ~ rf'.refreshPending]_vars

\* A scan has returned after a call was made during it.
C37_ReturnedWitness ==
    /\ LastScanDone /\ Len(rf.heap) >= 1 /\ rf.calls >= 2 /\ rf.armed # {}

(***************************************************************************)
(* Properties of the endpoint commands                                     *)
(***************************************************************************)
BothSelected == sel.endpointA # Null /\ sel.endpointB # Null

SameParent == sel.endpointA[1].parentModule = sel.endpointB[1].parentModule

\* C38: after any sequence of the endpoint commands, whenever the two selected
\* endpoints have different parent modules the Direct Connections view holds no
\* entries.
C38_NoEntriesAcrossParents ==
    (BothSelected /\ ~ SameParent) => sel.data = <<>>

\* The connection entries of the currently selected pair in the design held.
EntriesOfPair(st) ==
    [k \in 1..Len(EndpointConnections(st)) |-> ConnectionNode(EndpointConnections(st)[k])]

\* The part of C38 the code keeps: a command that leaves two endpoints of one parent
\* module selected while a design is indexed leaves the view holding the connections
\* of that pair.
C38_EntriesOfCurrentPair ==
    [][(/\ sel'.currentDesign = sel.currentDesign /\ sel' # sel
        /\ BothSelected' /\ SameParent' /\ sel'.currentDesign # Null)
       => sel'.data = EntriesOfPair(sel')]_vars

\* Two endpoints of one parent are selected and their shared clock is on display.
C38_ShownWitness ==
    /\ BothSelected /\ SameParent
    /\ sel.endpointA # sel.endpointB
    /\ Len(sel.data) >= 1

(***************************************************************************)
(* Properties of offsetToPosition and its line-start memo                  *)
(***************************************************************************)
\* The newlines of text before offset (1-based indices).
NewlinesBefore(text, offset) == {k \in 1..offset : text[k] = "\n"}

\* The offset at which the line holding offset starts.
LineStartOf(text, offset) ==
    IF NewlinesBefore(text, offset) = {} THEN 0
    ELSE CHOOSE k \in NewlinesBefore(text, offset) :
             \A h \in NewlinesBefore(text, offset) : h <= k

\* C40: after any sequence of conversions, the position the binary search returned
\* for the last text and offset is the one the linear scan returns: the line is the
\* number of newlines before the offset, the column the offset minus the start of
\* that line; and the memo holds the line starts of the text it names.
C40_BinarySearchAgreesWithLinear ==
    /\ memo.text # Null =>
          /\ memo.result[1] = offsetToPositionLinear(memo.text[1], memo.offset)
          /\ memo.result[1].line = Cardinality(NewlinesBefore(memo.text[1], memo.offset))
          /\ memo.result[1].character = memo.offset - LineStartOf(memo.text[1], memo.offset)
    /\ memo.cachedText # Null => memo.cachedLineStarts = getLineStarts(memo.cachedText[1])

\* A conversion past the first line of a text, made while the memo held the table of
\* a different text.
C40_ReplacedWitness ==
    /\ memo.served = "replaced"
    /\ memo.result[1].line >= 2
    /\ memo.result[1].character >= 1

\* A conversion served from the memo, past the first line.
C40_CachedWitness ==
    /\ memo.served = "cached"
    /\ memo.result[1].line >= 1
    /\ memo.result[1].character >= 1
====
